---- MODULE Spec2Model ----
(***************************************************************************)
(* Verification model of the searxng-cool music tier:                     *)
(*   - RateLimiter (src/music/rate_limiter/limiter.py), a sliding window  *)
(*     kept in a Redis sorted set per identifier;                         *)
(*   - MusicCache (src/music/cache/music_cache.py), a Redis string store  *)
(*     with zlib compression and TTL;                                     *)
(*   - MusicSearchService (src/orchestrator/services/                     *)
(*     music_search_service.py), the fan-out over the engines;            *)
(*   - MusicAggregationService and UniversalPlaylist (src/orchestrator/   *)
(*     services/music_aggregation_service.py), the playlist routes and    *)
(*     the playlist_tracks table;                                         *)
(*   - DataValidator._sanitize_text and MusicEngineBase                   *)
(*     .standardize_result, as functions of their argument.               *)
(* Each subsystem has its own specification over the shared variables;    *)
(* the variables of the other subsystems stay at their initial values.    *)
(***************************************************************************)
EXTENDS Integers, Sequences, FiniteSets, TLC

\* ------------------------------------------------------------------ bounds
MaxClock == 3      \* the wall clock runs over 0..MaxClock seconds
MaxLimit == 2      \* limits 1..MaxLimit are tried
MaxPeriod == 2     \* periods 1..MaxPeriod are tried
MaxGrants == 3     \* no acquire starts once this many grants are logged
MaxTTL == 2        \* setex is tried with ttl in 0..MaxTTL
MaxSearches == 2   \* requests served in one behaviour

VARIABLES
    clock,      \* int(time.time()), shared by every subsystem
    \* --- rate limiter
    limit,      \* the limit argument of acquire (fixed per behaviour)
    period,     \* the period argument of acquire (fixed per behaviour)
    zset,       \* Redis: identifier -> sorted set {[member, score]}
    expireAt,   \* Redis: identifier -> time at which the key expires, or NoExpiry
    pc,         \* caller -> position inside acquire
    now,        \* caller -> the local variable now
    ident,      \* caller -> the identifier argument
    result,     \* caller -> what the last acquire returned
    errored,    \* caller -> whether the last acquire went through the except branch
    grants,     \* history: identifier -> [second -> number of calls granted]
    \* --- cache
    enabled,     \* MusicCache.enabled
    compression, \* MusicCache.compression
    cstore,      \* Redis: full key -> [present, bytes, exp]
    written,     \* history: key -> the last setex that returned True: its value
                 \* and the second at which its ttl runs out
    getResult,   \* what the last get returned, for which key, and whether
                 \* the key's last write had run out by then
    \* --- search
    phase,          \* "idle", "waiting" (inside _parallel_search), "done"
    sQuery,         \* the q parameter of the request
    sEngines,       \* the engines parameter (<<>> for None)
    sLimit,         \* the limit parameter
    search_engines, \* search(): the resolved engine list
    wstate,         \* worker -> "submitted", "inflight", "finished"
    wresult,        \* worker -> the answer it got and what _search_engine returned
    collected,      \* the workers as_completed has already yielded
    all_results,    \* _parallel_search(): the aggregation buffer
    response,       \* what the route answered
    sent,           \* history: engine -> number of HTTP requests sent
    waited,         \* seconds the dispatcher has spent in _parallel_search
    searches,       \* number of requests served so far
    \* --- aggregation
    raw_results,    \* what SearXNG answers to the aggregated search
    aggLimit,       \* the limit argument of search_all_platforms
    aggPhase,       \* "idle", "done", "failed" (SearXNG gave no answer)
    aggOut,         \* what search_all_platforms returned
    \* --- playlists
    ptracks,            \* database: playlist id -> its committed playlist_tracks rows
    dbreq,              \* session -> the playlist_tracks request it is serving
    resp,               \* session -> the status of its last answer (0: none yet)
    dbAdded,            \* history: ids of the rows whose add was answered 200
    dbRemoved,          \* history: ids of the rows whose removal was answered 200
    playlists_storage,  \* in memory: playlist id -> UniversalPlaylist.tracks
    ureq,               \* session -> the add_track_to_playlist request it is serving
    uacked,             \* history: playlist id -> number of adds that appended a track
    m3u,                \* the last export: the playlist and the lines written
    \* --- sanitation and normalization of results
    text,            \* the argument of DataValidator._sanitize_text
    sanitized_text,       \* what _sanitize_text returned
    raw_result,      \* the argument of MusicEngineBase.standardize_result
    standardized,    \* standardize_result(raw_result)
    restandardized,  \* standardize_result(standardized)
    \* --- duration parsing
    duration_str,    \* the argument of parse_duration / _validate_duration
    duration_ms,     \* what each of the two returned
    \* --- engine adapters
    api_response,    \* the HTTP response an adapter receives
    outcome,         \* what the adapter did with it
    \* --- classifier
    cresult,         \* the argument of ContentClassifier.classify
    classification,  \* what classify returned for it, twice
    \* --- universal playlists and their creators
    ustorage,        \* playlists_storage as create_playlist fills it
    creators,        \* history: who created each playlist
    listing,         \* the last answer of list_playlists and who asked
    \* --- access to the playlists of the database
    playlists,       \* database: the playlists rows
    aclreq,          \* the last request on a playlist and what it found
    aclresp,         \* the status it was answered with
    \* --- other operations of the limiter and the cache
    remaining,       \* what the last get_remaining returned, and for whom
    was_reset,       \* the last reset: of whom, and what it found
    cleared,         \* what the last clear_pattern returned, and what it removed
    \* --- validation of a search input
    vinput,          \* the query and the engines given to validate_search_input
    is_valid         \* the is_valid it returned for them, <<>> before the call

limiterVars == <<limit, period, zset, expireAt, pc, now, ident, result, errored, grants>>
cacheVars == <<enabled, compression, cstore, written, getResult>>
searchVars == <<phase, sQuery, sEngines, sLimit, search_engines, wstate, wresult,
                collected, all_results, response, sent, waited, searches>>
aggVars == <<raw_results, aggLimit, aggPhase, aggOut>>
playlistVars == <<ptracks, dbreq, resp, dbAdded, dbRemoved, playlists_storage, ureq,
                  uacked, m3u>>
normVars == <<text, sanitized_text, raw_result, standardized, restandardized>>
durVars == <<duration_str, duration_ms>>
adapterVars == <<api_response, outcome>>
classVars == <<cresult, classification>>
ownerVars == <<ustorage, creators, listing>>
aclVars == <<playlists, aclreq, aclresp>>
probeVars == <<remaining, was_reset, cleared>>
validVars == <<vinput, is_valid>>
auxVars == <<durVars, adapterVars, classVars, ownerVars, aclVars, probeVars, validVars>>
vars == <<clock, limiterVars, cacheVars, searchVars, aggVars, playlistVars, normVars, auxVars>>

\* What the operations of one subsystem leave alone.
LimiterFrame == UNCHANGED <<clock, cacheVars, searchVars, aggVars, playlistVars, normVars, auxVars>>
CacheFrame == UNCHANGED <<clock, limiterVars, searchVars, aggVars, playlistVars, normVars, auxVars>>
SearchFrame == UNCHANGED <<clock, limiterVars, cacheVars, aggVars, playlistVars, normVars, auxVars>>
AggFrame == UNCHANGED <<clock, limiterVars, cacheVars, searchVars, playlistVars, normVars, auxVars>>
PlaylistFrame == UNCHANGED <<clock, limiterVars, cacheVars, searchVars, aggVars, normVars, auxVars>>
NormFrame == UNCHANGED <<clock, limiterVars, cacheVars, searchVars, aggVars, playlistVars, auxVars>>

\* ================================================================== helpers
RECURSIVE SumOver(_, _)
SumOver(f, S) ==
    IF S = {} THEN 0
    ELSE LET x == CHOOSE y \in S : TRUE IN f[x] + SumOver(f, S \ {x})

Min(a, b) == IF a < b THEN a ELSE b

\* ================================================================== rate limiter
\* The identifiers are engine names.
Identifiers == {"bandcamp", "soundcloud"}
Callers == {1, 2}
NoExpiry == -1

\* Redis ZREMRANGEBYSCORE key lo hi: drop the members whose score is in [lo, hi].
ZRemRangeByScore(z, lo, hi) == {x \in z : ~(lo <= x.score /\ x.score <= hi)}

\* Redis ZCARD.
ZCard(z) == Cardinality(z)

\* Redis ZADD key {member: score}: a member already present only has its score
\* updated; the set does not grow.
ZAdd(z, member, score) ==
    {x \in z : x.member # member} \cup {[member |-> member, score |-> score]}

\* The member acquire records: str(now). str is injective on integers, so the
\* member is represented by the integer itself.
MemberOf(n) == n

\* Mutant: the except branch denies the request.
OnStoreErrorClosed == FALSE

\* What acquire returns from its except branch.
OnStoreError == TRUE

\* The comparison that decides a grant.
UnderLimit(current_count, lim) == current_count < lim

LimiterInit ==
    /\ limit \in 1..MaxLimit
    /\ period \in 1..MaxPeriod
    /\ zset = [e \in Identifiers |-> {}]
    /\ expireAt = [e \in Identifiers |-> NoExpiry]
    /\ pc = [c \in Callers |-> "idle"]
    /\ now = [c \in Callers |-> 0]
    /\ ident = [c \in Callers |-> "soundcloud"]
    /\ result = [c \in Callers |-> "none"]
    /\ errored = [c \in Callers |-> FALSE]
    /\ grants = [e \in Identifiers |-> [t \in 0..MaxClock |-> 0]]

TotalGrants == SumOver([e \in Identifiers |-> SumOver(grants[e], 0..MaxClock)], Identifiers)

LogGrant(e, t) == [grants EXCEPT ![e][t] = @ + 1]

\* acquire, lines 42-46: now = int(time.time()); key = prefix:identifier.
AcquireStart(c, e) ==
    /\ pc[c] = "idle"
    /\ TotalGrants < MaxGrants
    /\ pc' = [pc EXCEPT ![c] = "pipe"]
    /\ now' = [now EXCEPT ![c] = clock]
    /\ ident' = [ident EXCEPT ![c] = e]
    /\ result' = [result EXCEPT ![c] = "none"]
    /\ errored' = [errored EXCEPT ![c] = FALSE]
    /\ UNCHANGED <<limit, period, zset, expireAt, grants>>
    /\ LimiterFrame

\* acquire, lines 49-65: the pipeline (MULTI/EXEC) prunes and counts in one
\* store step; the comparison with limit follows locally.
AcquirePipe(c) ==
    /\ pc[c] = "pipe"
    /\ LET e == ident[c]
           pruned == ZRemRangeByScore(zset[e], 0, now[c] - period)
           current_count == ZCard(pruned)
       IN /\ zset' = [zset EXCEPT ![e] = pruned]
          /\ expireAt' = [expireAt EXCEPT ![e] = IF pruned = {} THEN NoExpiry ELSE @]
          /\ IF UnderLimit(current_count, limit)
             THEN /\ pc' = [pc EXCEPT ![c] = "zadd"]
                  /\ UNCHANGED result
             ELSE /\ pc' = [pc EXCEPT ![c] = "idle"]
                  /\ result' = [result EXCEPT ![c] = "false"]
    /\ UNCHANGED <<limit, period, now, ident, errored, grants>>
    /\ LimiterFrame

\* acquire, line 61: self.redis.zadd(key, {str(now): now}).
AcquireZadd(c) ==
    /\ pc[c] = "zadd"
    /\ zset' = [zset EXCEPT ![ident[c]] = ZAdd(@, MemberOf(now[c]), now[c])]
    /\ pc' = [pc EXCEPT ![c] = "expire"]
    /\ UNCHANGED <<limit, period, expireAt, now, ident, result, errored, grants>>
    /\ LimiterFrame

\* acquire, lines 62-63: self.redis.expire(key, period + 1); return True.
\* EXPIRE counts from the store's clock; on a key that does not exist it does nothing.
AcquireExpire(c) ==
    /\ pc[c] = "expire"
    /\ expireAt' = [expireAt EXCEPT ![ident[c]] =
                        IF zset[ident[c]] = {} THEN @ ELSE clock + period + 1]
    /\ pc' = [pc EXCEPT ![c] = "idle"]
    /\ result' = [result EXCEPT ![c] = "true"]
    /\ grants' = LogGrant(ident[c], now[c])
    /\ UNCHANGED <<limit, period, zset, now, ident, errored>>
    /\ LimiterFrame

\* acquire, lines 67-70: any store call raises; the except branch logs and
\* returns True.
AcquireStoreError(c) ==
    /\ pc[c] \in {"pipe", "zadd", "expire"}
    /\ pc' = [pc EXCEPT ![c] = "idle"]
    /\ errored' = [errored EXCEPT ![c] = TRUE]
    /\ result' = [result EXCEPT ![c] = IF OnStoreError THEN "true" ELSE "false"]
    /\ grants' = IF OnStoreError THEN LogGrant(ident[c], now[c]) ELSE grants
    /\ UNCHANGED <<limit, period, zset, expireAt, now, ident>>
    /\ LimiterFrame

AcquireStep(c) ==
    \/ \E e \in Identifiers : AcquireStart(c, e)
    \/ AcquirePipe(c)
    \/ AcquireZadd(c)
    \/ AcquireExpire(c)

\* ================================================================== cache
\* Cache keys of the form music:search:<engine>:<hash>, one per engine of the
\* registry sample.
Keys == {"music:search:bandcamp:h", "music:search:soundcloud:h"}
key_prefix == "searxng_music"

\* The cached strings tried, as code points: "", "A", "e acute" (two UTF-8
\* bytes) and "e acute" followed by "A".
Strings == {<<>>, <<65>>, <<233>>, <<233, 65>>}
\* The payloads a foreign writer may leave under a key: "A"; a truncated
\* character; the two bytes of "e acute"; a byte that is never valid UTF-8; a
\* zlib stream with a wrong check value; a well-formed zlib stream of "A".
ForeignPayloads ==
    {<<65>>, <<195>>, <<195, 169>>, <<255>>, <<120, 156, 65, 67>>, <<120, 156, 65, 66>>}

\* f"{self.key_prefix}:{key}"
FullKey(k) == <<key_prefix, k>>
RedisKeys == {FullKey(k) : k \in Keys}

NoEntry == [present |-> FALSE, bytes |-> <<>>, exp |-> 0]
Miss == [hit |-> FALSE, value |-> <<>>]
Hit(v) == [hit |-> TRUE, value |-> v]

\* Mutant: one byte per code point (latin-1), whatever the code point.
EncodeCodePointLatin1(cp) == <<cp>>

\* str.encode('utf-8') for code points below 0x800.
EncodeCodePoint(cp) ==
    IF cp < 128 THEN <<cp>> ELSE <<192 + (cp \div 64), 128 + (cp % 64)>>

RECURSIVE Utf8Encode(_)
Utf8Encode(s) ==
    IF s = <<>> THEN <<>> ELSE EncodeCodePoint(Head(s)) \o Utf8Encode(Tail(s))

\* bytes.decode('utf-8') for one- and two-byte characters: [ok, text];
\* ok = FALSE stands for UnicodeDecodeError.
RECURSIVE Utf8Decode(_)
Utf8Decode(b) ==
    IF b = <<>> THEN [ok |-> TRUE, text |-> <<>>]
    ELSE IF b[1] < 128
         THEN LET r == Utf8Decode(Tail(b))
              IN [ok |-> r.ok, text |-> <<b[1]>> \o r.text]
    ELSE IF /\ 194 <= b[1] /\ b[1] <= 223 /\ Len(b) >= 2
            /\ 128 <= b[2] /\ b[2] <= 191
         THEN LET r == Utf8Decode(Tail(Tail(b)))
              IN [ok |-> r.ok, text |-> <<(b[1] - 192) * 64 + (b[2] - 128)>> \o r.text]
    ELSE [ok |-> FALSE, text |-> <<>>]

RECURSIVE SumSeq(_)
SumSeq(b) == IF b = <<>> THEN 0 ELSE Head(b) + SumSeq(Tail(b))

\* The zlib container: the two header bytes 0x78 0x9c, the payload, and the
\* Adler-32 check value (its low word, 1 + sum of the bytes mod 65521). The
\* deflate coding of the payload is kept as stored bytes.
Adler(b) == (1 + SumSeq(b)) % 65521
ZCompress(b) == <<120, 156>> \o b \o <<Adler(b)>>

\* zlib.decompress: [ok, bytes]; ok = FALSE stands for zlib.error.
ZDecompress(b) ==
    IF /\ Len(b) >= 3 /\ b[1] = 120 /\ b[2] = 156
       /\ b[Len(b)] = Adler(SubSeq(b, 3, Len(b) - 1))
    THEN [ok |-> TRUE, bytes |-> SubSeq(b, 3, Len(b) - 1)]
    ELSE [ok |-> FALSE, bytes |-> <<>>]

\* setex, lines 106-108: what is handed to Redis.
CacheValue(v, compress) ==
    IF compress THEN ZCompress(Utf8Encode(v)) ELSE Utf8Encode(v)

\* Mutant: a payload that does not decompress is given up.
DecodeStoredStrict(bytes, compress) ==
    LET z == ZDecompress(bytes)
        d == Utf8Decode(IF compress THEN z.bytes ELSE bytes)
    IN IF (compress => z.ok) /\ d.ok THEN Hit(d.text) ELSE Miss

\* get, lines 69-81: from the stored bytes to the returned value. A failed
\* decompress is swallowed and the bytes are decoded as they are; a failed
\* decode reaches the outer except and get returns None.
DecodeStored(bytes, compress) ==
    LET z == ZDecompress(bytes)
        raw == IF compress /\ z.ok THEN z.bytes ELSE bytes
        d == Utf8Decode(raw)
    IN IF d.ok THEN Hit(d.text) ELSE Miss

\* Mutant: the value is stored without a time to live (SET for SETEX).
RedisSetNoTtl(store, fk, ttl, bytes) ==
    [store EXCEPT ![fk] =
        [present |-> TRUE, bytes |-> bytes, exp |-> MaxClock + MaxTTL + ttl + 1]]

\* Redis SETEX key ttl value: the entry expires ttl seconds from now.
RedisSetex(store, fk, ttl, bytes) ==
    [store EXCEPT ![fk] = [present |-> TRUE, bytes |-> bytes, exp |-> clock + ttl]]

\* Redis DEL key.
RedisDelete(store, fk) == [store EXCEPT ![fk] = NoEntry]

NoWrite == [ok |-> FALSE, value |-> <<>>, exp |-> 0]

CacheIdle ==
    /\ cstore = [fk \in RedisKeys |-> NoEntry]
    /\ written = [k \in Keys |-> NoWrite]
    /\ getResult = [key |-> "none", ret |-> Miss, late |-> FALSE]

CacheInit ==
    /\ enabled \in BOOLEAN
    /\ compression \in BOOLEAN
    /\ CacheIdle

\* MusicCache.setex(key, ttl, value). Redis refuses a ttl that is not positive
\* (ResponseError), which the except branch turns into False.
Setex(k, t, v) ==
    /\ IF enabled /\ t > 0
       THEN /\ cstore' = RedisSetex(cstore, FullKey(k), t, CacheValue(v, compression))
            /\ written' = [written EXCEPT ![k] =
                              [ok |-> TRUE, value |-> v, exp |-> clock + t]]
       ELSE UNCHANGED <<cstore, written>>
    /\ UNCHANGED <<enabled, compression, getResult>>
    /\ CacheFrame

\* What MusicCache.get(key) returns on a store.
GetReturn(store, k) ==
    IF ~enabled \/ ~store[FullKey(k)].present THEN Miss
    ELSE DecodeStored(store[FullKey(k)].bytes, compression)

\* MusicCache.get(key).
Get(k) ==
    /\ getResult' =
          [key |-> k, late |-> written[k].ok /\ clock >= written[k].exp,
           ret |-> GetReturn(cstore, k)]
    /\ UNCHANGED <<enabled, compression, cstore, written>>
    /\ CacheFrame

\* MusicCache.delete(key).
Delete(k) ==
    /\ enabled
    /\ cstore' = RedisDelete(cstore, FullKey(k))
    /\ written' = [written EXCEPT ![k] = NoWrite]
    /\ UNCHANGED <<enabled, compression, getResult>>
    /\ CacheFrame

\* Another client of the same Redis database leaves a payload of its own
\* under a cache key (no TTL of the cache's choosing: it lasts to MaxClock).
ForeignWrite(k, b) ==
    /\ cstore' = [cstore EXCEPT ![FullKey(k)] =
                     [present |-> TRUE, bytes |-> b, exp |-> MaxClock + MaxTTL + 1]]
    /\ written' = [written EXCEPT ![k] = NoWrite]
    /\ UNCHANGED <<enabled, compression, getResult>>
    /\ CacheFrame

\* ================================================================== search
\* MusicSearchService.ACTIVE_ENGINES: the keys of the registry, in dictionary
\* order.
ACTIVE_ENGINES ==
    <<"bandcamp", "soundcloud", "mixcloud", "musicbrainz", "lastfm",
      "deezer", "free music archive", "beatport", "discogs music",
      "jamendo music", "genius", "piped.music", "archive.org audio",
      "radio paradise", "youtube", "spotify web", "apple music web",
      "tidal web", "musixmatch", "musictoscrape", "allmusic", "pitchfork">>
ActiveNames == {ACTIVE_ENGINES[i] : i \in 1..Len(ACTIVE_ENGINES)}
\* ACTIVE_ENGINES[engine]['name'], for a key of the registry.
EngineDisplayName(e) ==
    CASE e = "bandcamp" -> "Bandcamp"
      [] e = "soundcloud" -> "SoundCloud"
      [] e = "mixcloud" -> "MixCloud"
      [] e = "musicbrainz" -> "MusicBrainz"
      [] e = "lastfm" -> "Last.fm"
      [] e = "deezer" -> "Deezer"
      [] e = "free music archive" -> "Free Music Archive"
      [] e = "beatport" -> "Beatport"
      [] e = "discogs music" -> "Discogs Music"
      [] e = "jamendo music" -> "Jamendo Music"
      [] e = "genius" -> "Genius"
      [] e = "piped.music" -> "Piped Music"
      [] e = "archive.org audio" -> "Archive.org Audio"
      [] e = "radio paradise" -> "Radio Paradise"
      [] e = "youtube" -> "YouTube"
      [] e = "spotify web" -> "Spotify Web"
      [] e = "apple music web" -> "Apple Music Web"
      [] e = "tidal web" -> "Tidal Web"
      [] e = "musixmatch" -> "Musixmatch"
      [] e = "musictoscrape" -> "MusicToScrape"
      [] e = "allmusic" -> "AllMusic"
      [] e = "pitchfork" -> "Pitchfork"

\* self.timeout = 10  # seconds per engine
timeout == 10

\* Queries are sequences of tokens; a token stands for a piece of text.
\*   "sp"     one space                      "a"   one letter
\*   "w199"   199 letters                    "js"  the text javascript:
\*   "script" the text <script>alert(1)</script>
TokenLen(t) ==
    CASE t = "sp" -> 1 [] t = "a" -> 1 [] t = "w199" -> 199
      [] t = "js" -> 11 [] t = "script" -> 25

RECURSIVE QueryLen(_)
QueryLen(q) == IF q = <<>> THEN 0 ELSE TokenLen(Head(q)) + QueryLen(Tail(q))

\* str.strip()
RECURSIVE LStrip(_)
LStrip(q) == IF q # <<>> /\ Head(q) = "sp" THEN LStrip(Tail(q)) ELSE q
RECURSIVE RStrip(_)
RStrip(q) ==
    IF q # <<>> /\ q[Len(q)] = "sp" THEN RStrip(SubSeq(q, 1, Len(q) - 1)) ELSE q
Strip(q) == RStrip(LStrip(q))

\* DataValidator._contains_dangerous_content: some DANGEROUS_PATTERNS regex
\* matches (a script element, javascript:, an on*= handler, data:text/html).
ContainsDangerousContent(q) == \E i \in 1..Len(q) : q[i] \in {"script", "js"}

\* DataValidator.validate_search_input: the names it accepts.
valid_engines ==
    {"bandcamp enhanced", "soundcloud", "mixcloud enhanced", "discogs music",
     "jamendo music", "genius", "piped.music", "archive.org audio",
     "radio paradise", "youtube"}

\* DataValidator.validate_search_input(query, engines) -> is_valid.
ValidateSearchInput(q, engines) ==
    /\ Strip(q) # <<>>
    /\ QueryLen(Strip(q)) >= 2
    /\ QueryLen(Strip(q)) <= 200
    /\ ~ContainsDangerousContent(Strip(q))
    /\ \A i \in 1..Len(engines) : engines[i] \in valid_engines

\* The requests tried.
Queries ==
    {<<>>, <<"a">>, <<"sp", "a", "sp">>, <<"a", "a">>, <<"w199", "a", "a">>, <<"script">>}
\* The engine lists of the requests. A request without a list is resolved to
\* the whole registry by ResolveEngines and is not drawn here: its 22 workers
\* are beyond what the interleavings can cover.
RequestedEngines ==
    {<<"deezer">>, <<"soundcloud">>, <<"soundcloud", "bandcamp">>, <<"bandcamp enhanced">>}
Limits == {1, 50}

\* What the search backend may answer to one engine's request. None and
\* NoDuration stand for a missing field.
None == "<none>"
NoDuration == -1
RadioResult ==
    [title |-> "#1 TOP DJ CHARTS RADIO", url |-> "https://exclusive.radio/top-dj",
     content |-> "", duration |-> NoDuration]
TrackResult ==
    [title |-> "Daft Punk - Around the World",
     url |-> "https://soundcloud.com/daftpunk/around-the-world",
     content |-> "", duration |-> 428]
TaintedResult ==
    [title |-> "Daft Punk - Around the World<script>alert(1)</script>",
     url |-> "https://bandcamp.com/track/around-the-world",
     content |-> "", duration |-> NoDuration]
ResultLists ==
    {<<>>, <<RadioResult>>, <<TrackResult>>, <<TaintedResult, RadioResult>>}

\* An answer: status 200 with a result list, another status, or an exception
\* out of requests.get / response.json (timeout, connection error, bad JSON).
Answers ==
    {[kind |-> "ok", status |-> 200, results |-> l] : l \in ResultLists}
      \cup {[kind |-> "status", status |-> 403, results |-> <<>>],
            [kind |-> "raise", status |-> 0, results |-> <<>>]}

\* _search_engine, lines 172-174: the engine is recorded on each result.
TagResult(r, engine) ==
    [title |-> r.title, url |-> r.url, content |-> r.content, duration |-> r.duration,
     engine |-> engine, engine_name |-> EngineDisplayName(engine)]

\* _search_engine, lines 167-185: what the worker returns for an answer.
SearchEngineReturn(answer, engine) ==
    IF answer.kind = "ok"
    THEN [i \in 1..Len(answer.results) |-> TagResult(answer.results[i], engine)]
    ELSE <<>>

\* Mutant: the buffer is overwritten with the latest list.
GatherReplace(buffer, results) == results

\* _parallel_search, lines 131-133: a finished worker's list joins the buffer.
Gather(buffer, results) == IF results # <<>> THEN buffer \o results ELSE buffer

\* search, line 85: the requested names the registry knows (all of them when
\* none is requested, line 84).
RECURSIVE KeepActive(_)
KeepActive(names) ==
    IF names = <<>> THEN <<>>
    ELSE IF Head(names) \in ActiveNames THEN <<Head(names)>> \o KeepActive(Tail(names))
    ELSE KeepActive(Tail(names))
ResolveEngines(engines) == KeepActive(IF engines # <<>> THEN engines ELSE ACTIVE_ENGINES)

\* ---- the pipeline of search(), lines 90-104
\* DataValidator._sanitize_text on the titles of the catalogue: the script
\* element is removed, nothing else changes.
SanitizeText(t) ==
    IF t = "Daft Punk - Around the World<script>alert(1)</script>"
    THEN "Daft Punk - Around the World" ELSE t

MIN_DURATION_MS == 1000
MAX_DURATION_MS == 14400000

\* DataValidator._validate_duration for a number.
ValidateDuration(d) ==
    LET ms == IF d < 1000 THEN d * 1000 ELSE d
    IN IF MIN_DURATION_MS <= ms /\ ms <= MAX_DURATION_MS THEN ms ELSE NoDuration

\* DataValidator.sanitize_search_result. The URLs of the catalogue start with
\* https:// and carry no scheme of the refused kind: _sanitize_url keeps them.
SanitizeSearchResult(r) ==
    [r EXCEPT !.title = SanitizeText(@),
              !.content = SanitizeText(@),
              !.duration = IF @ = NoDuration THEN NoDuration ELSE ValidateDuration(@)]

\* title.split(' - ', 1) on the sanitized_text titles of the catalogue.
TitleParts(t) ==
    IF t = "Daft Punk - Around the World" THEN <<"Daft Punk", "Around the World">>
    ELSE <<t>>

\* _normalize_results, lines 194-224, for one result. enhance_metadata returns
\* its argument unchanged: no _content_type is set at that point.
NormalizeResult(r) ==
    [title |-> r.title, url |-> r.url, engine |-> r.engine,
     engine_name |-> r.engine_name, content |-> r.content,
     metadata |-> [duration |-> r.duration,
                   artist |-> IF Len(TitleParts(r.title)) = 2
                              THEN TitleParts(r.title)[1] ELSE None,
                   track |-> IF Len(TitleParts(r.title)) = 2
                             THEN TitleParts(r.title)[2] ELSE r.title]]

\* ContentClassifier: the regular expressions on the strings of the catalogue.
\* RADIO_PATTERNS on the title, the radio words in the URL, the first five
\* RADIO_PATTERNS on the content, the first two MUSIC_PATTERNS on the title,
\* PODCAST_PATTERNS on title and content.
TitleMatchesRadio(t) == t \in {"#1 TOP DJ CHARTS RADIO", "Morning Radio"}
UrlHasRadioDomain(u) == u \in {"https://exclusive.radio/top-dj", "https://live.example/a"}
ContentMatchesRadio(c) == c = "best station"
TitleMatchesMusic(t) == t = "Daft Punk - Around the World"
IsMusicEngine(e) == e \in {"bandcamp", "soundcloud", "jamendo music", "mixcloud"}
IsPodcast(t, c) == c = "weekly podcast"

\* ContentClassifier._parse_duration: the seconds read from m:ss or h:mm:ss in
\* the text, NoDuration for None.
ContentDuration(c) ==
    CASE c = "3:45" -> 3 * 60 + 45
      [] c = "2:00:00" -> 2 * 3600 + 0 * 60 + 0
      [] OTHER -> NoDuration

\* ContentClassifier._has_music_metadata: one of the fields is a key of the
\* result itself (the normalized results keep them under metadata).
HasMusicMetadata(n) ==
    \E f \in {"artist", "album", "duration", "track", "isrc"} : f \in DOMAIN n

\* ContentClassifier._calculate_radio_score, in tenths.
RadioScore(n) ==
    Min(10, (IF TitleMatchesRadio(n.title) THEN 3 ELSE 0)
            + (IF UrlHasRadioDomain(n.url) THEN 3 ELSE 0)
            + (IF ContentMatchesRadio(n.content) THEN 2 ELSE 0)
            + (IF ContentDuration(n.content) = NoDuration \/ ContentDuration(n.content) > 3600
               THEN 2 ELSE 0))

\* ContentClassifier._calculate_music_score, in tenths.
MusicScore(n) ==
    Min(10, (IF TitleMatchesMusic(n.title) THEN 4 ELSE 0)
            + (IF HasMusicMetadata(n) THEN 3 ELSE 0)
            + (IF ContentDuration(n.content) # NoDuration /\ 30 <= ContentDuration(n.content)
                  /\ ContentDuration(n.content) <= 900 THEN 2 ELSE 0)
            + (IF IsMusicEngine(n.engine) THEN 3 ELSE 0))

\* ContentClassifier.classify: the content type and the confidence in tenths
\* (0.95 reads 9, as nothing compares it).
ClassifyWithConfidence(n) ==
    IF n.engine = "radio browser" THEN <<"radio_station", 9>>
    ELSE IF n.engine \in {"genius", "genius lyrics"} THEN <<"lyrics", 9>>
    ELSE IF RadioScore(n) > 7 THEN <<"radio_station", RadioScore(n)>>
    ELSE IF IsPodcast(n.title, n.content) THEN <<"podcast", 8>>
    ELSE IF MusicScore(n) > 5 THEN <<"music_track", MusicScore(n)>>
    ELSE IF n.engine = "youtube" /\ n.url = "https://www.youtube.com/watch?v=x"
    THEN (IF HasMusicMetadata(n) THEN <<"video", 7>> ELSE <<"unknown", 3>>)
    ELSE <<"unknown", 0>>
Classify(n) == ClassifyWithConfidence(n)[1]

AllowedTypes == {"music_track", "video"}

\* result['_content_type'], result['_confidence'] set by filter_results.
Classified(n) ==
    [k \in DOMAIN n \cup {"content_type", "confidence"} |->
        CASE k = "content_type" -> ClassifyWithConfidence(n)[1]
          [] k = "confidence" -> ClassifyWithConfidence(n)[2]
          [] OTHER -> n[k]]

\* ContentClassifier.filter_results with the default allowed types.
RECURSIVE FilterResults(_)
FilterResults(results) ==
    IF results = <<>> THEN <<>>
    ELSE IF Classify(Head(results)) \in AllowedTypes
         THEN <<Classified(Head(results))>> \o FilterResults(Tail(results))
         ELSE FilterResults(Tail(results))

\* _create_dedup_key: lower case, punctuation removed.
CleanLower(t) ==
    CASE t = "Daft Punk" -> "daft punk"
      [] t = "Daft Punk - Around the World" -> "daft punk  around the world"
      [] t = "#1 TOP DJ CHARTS RADIO" -> "1 top dj charts radio"
      [] t = None -> ""
      [] OTHER -> t
CreateDedupKey(n) == <<CleanLower(n.metadata.artist), CleanLower(n.title)>>

\* _deduplicate_results: the first result of each key stays.
RECURSIVE Deduplicate(_, _)
Deduplicate(results, seen) ==
    IF results = <<>> THEN <<>>
    ELSE IF CreateDedupKey(Head(results)) \in seen
         THEN Deduplicate(Tail(results), seen)
         ELSE <<Head(results)>>
                \o Deduplicate(Tail(results), seen \cup {CreateDedupKey(Head(results))})

Take(sq, n) == SubSeq(sq, 1, Min(n, Len(sq)))

Pipeline(buffer) ==
    LET sanitized == [i \in 1..Len(buffer) |-> SanitizeSearchResult(buffer[i])]
        normalized == [i \in 1..Len(sanitized) |-> NormalizeResult(sanitized[i])]
    IN Deduplicate(FilterResults(normalized), {})

NoResponse ==
    [status |-> 0, success |-> FALSE, engines_queried |-> 0, total_results |-> 0,
     results |-> <<>>]

SearchIdle ==
    /\ phase = "idle"
    /\ sQuery = <<>> /\ sEngines = <<>> /\ sLimit = 50
    /\ search_engines = <<>>
    /\ wstate = <<>> /\ wresult = <<>>
    /\ collected = {}
    /\ all_results = <<>>
    /\ response = NoResponse
    /\ sent = [e \in ActiveNames |-> 0]
    /\ waited = 0
    /\ searches = 0

\* The route music_search and search() up to the submission of the workers.
\*  - an empty q is answered 400 by the route (lines 48-51);
\*  - search() validates nothing; it resolves the engines and submits one
\*    worker per resolved engine;
\*  - with no engine left, ThreadPoolExecutor(max_workers=0) raises ValueError
\*    and the route answers 500 (lines 62-66).
SearchCall(q, engines, lim) ==
    /\ phase \in {"idle", "done"}
    /\ searches < MaxSearches
    /\ searches' = searches + 1
    /\ sQuery' = q /\ sEngines' = engines /\ sLimit' = lim
    /\ wresult' = <<>> /\ collected' = {} /\ all_results' = <<>> /\ waited' = 0
    /\ IF q = <<>>
       THEN /\ phase' = "done"
            /\ response' = [NoResponse EXCEPT !.status = 400]
            /\ search_engines' = <<>> /\ wstate' = <<>>
       ELSE IF ResolveEngines(engines) = <<>>
       THEN /\ phase' = "done"
            /\ response' = [NoResponse EXCEPT !.status = 500]
            /\ search_engines' = <<>> /\ wstate' = <<>>
       ELSE /\ phase' = "waiting"
            /\ response' = NoResponse
            /\ search_engines' = ResolveEngines(engines)
            /\ wstate' = [i \in 1..Len(ResolveEngines(engines)) |-> "submitted"]
    /\ UNCHANGED sent
    /\ SearchFrame

Workers == 1..Len(wstate)

\* _search_engine, line 163: the worker sends its HTTP request.
WorkerSend(i) ==
    /\ phase = "waiting" /\ i \in Workers /\ wstate[i] = "submitted"
    /\ wstate' = [wstate EXCEPT ![i] = "inflight"]
    /\ sent' = [sent EXCEPT ![search_engines[i]] = @ + 1]
    /\ UNCHANGED <<phase, sQuery, sEngines, sLimit, search_engines, wresult, collected,
                   all_results, response, waited, searches>>
    /\ SearchFrame

\* _search_engine, lines 165-185: the answer arrives and the worker returns.
WorkerReturn(i, answer) ==
    /\ phase = "waiting" /\ i \in Workers /\ wstate[i] = "inflight"
    /\ wstate' = [wstate EXCEPT ![i] = "finished"]
    /\ wresult' = wresult @@ (i :> [answer |-> answer,
                                    results |-> SearchEngineReturn(answer, search_engines[i])])
    /\ UNCHANGED <<phase, sQuery, sEngines, sLimit, search_engines, collected,
                   all_results, response, sent, waited, searches>>
    /\ SearchFrame

\* _parallel_search, lines 128-136: as_completed yields a finished future.
Collect(i) ==
    /\ phase = "waiting" /\ i \in Workers /\ wstate[i] = "finished" /\ i \notin collected
    /\ collected' = collected \cup {i}
    /\ all_results' = Gather(all_results, wresult[i].results)
    /\ UNCHANGED <<phase, sQuery, sEngines, sLimit, search_engines, wstate, wresult,
                   response, sent, waited, searches>>
    /\ SearchFrame

\* _parallel_search returns once as_completed is exhausted and the executor
\* has shut down (both wait for every worker); search(), lines 90-116, builds
\* the response.
SearchReturn ==
    /\ phase = "waiting"
    /\ collected = Workers
    /\ phase' = "done"
    /\ response' = [status |-> 200, success |-> TRUE,
                    engines_queried |-> Len(search_engines),
                    total_results |-> Len(Pipeline(all_results)),
                    results |-> Take(Pipeline(all_results), sLimit)]
    /\ UNCHANGED <<sQuery, sEngines, sLimit, search_engines, wstate, wresult, collected,
                   all_results, sent, waited, searches>>
    /\ SearchFrame

\* A second passes while the dispatcher waits for its workers.
SearchWait ==
    /\ phase = "waiting"
    /\ waited <= timeout
    /\ waited' = waited + 1
    /\ UNCHANGED <<phase, sQuery, sEngines, sLimit, search_engines, wstate, wresult,
                   collected, all_results, response, sent, searches>>
    /\ SearchFrame

\* ================================================================== aggregation
\* MusicAggregationService. A raw result is [title, url, engine]; its other
\* fields (content, publishedDate, embedded) are copied into the platform
\* record and take no part in grouping, scoring or ordering.
MaxRaw == 3

\* The URL a result of an engine carries.
UrlOf(e) ==
    CASE e = "youtube" -> "https://youtube.com/watch?v=1"
      [] e = "spotify" -> "https://open.spotify.com/track/1"
      [] e = "soundcloud" -> "https://soundcloud.com/a/t"
      [] e = "soundcloud enhanced" -> "https://soundcloud.com/a/t2"
      [] e = "deezer" -> "https://deezer.com/track/1"
      [] e = "mixcloud" -> "https://mixcloud.com/a/t"

RadioRaw ==
    [title |-> "Radio Paradise", url |-> "https://radioparadise.com/", engine |-> "radio paradise"]
Raw(e, t) == [title |-> t, url |-> UrlOf(e), engine |-> e]

\* The results SearXNG may return.
RawCatalogue ==
    {Raw("youtube", "Daft Punk - Around the World"),
     Raw("spotify", "DAFT PUNK - Around The World"),
     Raw("soundcloud", "Daft Punk - Around the World"),
     Raw("soundcloud enhanced", "DAFT PUNK - Around The World"),
     Raw("deezer", "Daft Punk - Around the World"),
     Raw("deezer", "Get Lucky"),
     Raw("mixcloud", "One More Time"),
     Raw("mixcloud", "Daft Punk - Around the World"),
     RadioRaw}
RawAnswers == UNION {[1..n -> RawCatalogue] : n \in 0..MaxRaw}

\* _search_searxng, lines 126-130: results with 'radio' in the engine name or
\* in the URL are dropped.
IsRadio(r) == r.engine = "radio paradise" \/ r.url = "https://radioparadise.com/"

NotRadio(r) == ~IsRadio(r)
SearchSearxng(answer) == SelectSeq(answer, NotRadio)

\* _group_by_platform, line 149: engine.replace(' enhanced', '').lower().
PlatformKey(engine) == IF engine = "soundcloud enhanced" THEN "soundcloud" ELSE engine

\* The keys of the groups dictionary, in insertion order.
RECURSIVE PlatformOrder(_, _)
PlatformOrder(results, seen) ==
    IF results = <<>> THEN <<>>
    ELSE IF PlatformKey(Head(results).engine) \in seen
         THEN PlatformOrder(Tail(results), seen)
         ELSE <<PlatformKey(Head(results).engine)>>
                \o PlatformOrder(Tail(results), seen \cup {PlatformKey(Head(results).engine)})

\* _group_by_platform: the groups, each with its results in arrival order.
GroupByPlatform(results) ==
    LET order == PlatformOrder(results, {})
    IN [i \in 1..Len(order) |->
          [platform |-> order[i],
           results |-> LET InGroup(r) == PlatformKey(r.engine) = order[i]
                       IN SelectSeq(results, InGroup)]]

\* _create_unified_tracks, lines 161-168: title.strip(), then the split at the
\* first ' - ' into artist and title.
SplitTitle(t) ==
    CASE t = "Daft Punk - Around the World" ->
             [artist |-> "Daft Punk", title |-> "Around the World"]
      [] t = "DAFT PUNK - Around The World" ->
             [artist |-> "DAFT PUNK", title |-> "Around The World"]
      [] OTHER -> [artist |-> "Unknown Artist", title |-> t]

\* str.lower() on the artists and titles of the catalogue.
Lower(t) ==
    CASE t \in {"Daft Punk", "DAFT PUNK"} -> "daft punk"
      [] t \in {"Around the World", "Around The World"} -> "around the world"
      [] t = "One More Time" -> "one more time"
      [] t = "Get Lucky" -> "get lucky"
      [] t = "Unknown Artist" -> "unknown artist"
      [] OTHER -> t

\* _generate_unified_id: the digest of "artist:title" in lower case; the
\* normalized text stands for its digest.
GenerateUnifiedId(title, artist) == <<Lower(artist), Lower(title)>>

\* track.platforms[platform] = {...}, lines 185-190, on an insertion-ordered
\* dictionary: a present key keeps its place and gets the new record.
PutPlatform(platforms, key, data) ==
    IF \E i \in 1..Len(platforms) : platforms[i].platform = key
    THEN [i \in 1..Len(platforms) |->
             IF platforms[i].platform = key THEN data ELSE platforms[i]]
    ELSE Append(platforms, data)

\* _create_unified_tracks, lines 173-190, for one result of one platform.
AbsorbResult(track_map, platform, r) ==
    LET parts == SplitTitle(r.title)
        unified_id == GenerateUnifiedId(parts.title, parts.artist)
        data == [platform |-> platform, url |-> r.url, engine |-> r.engine]
    IN IF \E i \in 1..Len(track_map) : track_map[i].unified_id = unified_id
       THEN [i \in 1..Len(track_map) |->
                IF track_map[i].unified_id = unified_id
                THEN [track_map[i] EXCEPT !.platforms = PutPlatform(@, platform, data)]
                ELSE track_map[i]]
       ELSE Append(track_map,
                   [unified_id |-> unified_id, title |-> parts.title, artist |-> parts.artist,
                    platforms |-> <<data>>, popularity_score |-> 0])

RECURSIVE AbsorbGroup(_, _, _)
AbsorbGroup(track_map, platform, results) ==
    IF results = <<>> THEN track_map
    ELSE AbsorbGroup(AbsorbResult(track_map, platform, Head(results)), platform, Tail(results))

\* _create_unified_tracks: platform after platform, list(track_map.values()).
RECURSIVE CreateUnifiedTracks(_, _)
CreateUnifiedTracks(platform_groups, track_map) ==
    IF platform_groups = <<>> THEN track_map
    ELSE CreateUnifiedTracks(Tail(platform_groups),
             AbsorbGroup(track_map, Head(platform_groups).platform,
                         Head(platform_groups).results))

\* _calculate_popularity: the weight of a platform (platform_scores.get(p, 5)).
PlatformScore(p) ==
    CASE p = "youtube" -> 30 [] p = "spotify" -> 25 [] p = "soundcloud" -> 20
      [] p = "bandcamp" -> 15 [] p = "deezer" -> 10 [] p = "mixcloud" -> 10
      [] p = "genius" -> 5 [] OTHER -> 5

RECURSIVE PlatformSum(_)
PlatformSum(platforms) ==
    IF platforms = <<>> THEN 0
    ELSE PlatformScore(Head(platforms).platform) + PlatformSum(Tail(platforms))

\* Mutant: the score is not capped.
CalculatePopularityUncapped(track) ==
    [track EXCEPT !.popularity_score = PlatformSum(track.platforms) + Len(track.platforms) * 10]

\* _calculate_popularity, lines 241-249.
CalculatePopularity(track) ==
    [track EXCEPT !.popularity_score =
        Min(100, PlatformSum(track.platforms) + Len(track.platforms) * 10)]

\* list.sort(key=popularity_score, reverse=True): a stable sort, equal scores
\* keep their order.
InsertByScore(sorted, x) ==
    LET k == Cardinality({i \in 1..Len(sorted) : sorted[i].popularity_score >= x.popularity_score})
    IN SubSeq(sorted, 1, k) \o <<x>> \o SubSeq(sorted, k + 1, Len(sorted))

RECURSIVE SortByPopularity(_, _)
SortByPopularity(tracks, sorted) ==
    IF tracks = <<>> THEN sorted
    ELSE SortByPopularity(Tail(tracks), InsertByScore(sorted, Head(tracks)))

\* search_all_platforms, lines 84-105, on SearXNG's answer.
SearchAllPlatforms(answer, lim) ==
    LET music_results == SearchSearxng(answer)
        unified == CreateUnifiedTracks(GroupByPlatform(music_results), <<>>)
        scored == [i \in 1..Len(unified) |-> CalculatePopularity(unified[i])]
    IN IF music_results = <<>> THEN <<>>
       ELSE Take(SortByPopularity(scored, <<>>), lim)

AggIdle ==
    /\ raw_results = <<>> /\ aggLimit = 50 /\ aggPhase = "idle" /\ aggOut = <<>>

AggInit ==
    /\ raw_results \in RawAnswers /\ aggLimit \in Limits
    /\ aggPhase = "idle" /\ aggOut = <<>>

\* search_all_platforms with SearXNG answering 200.
AggSearch ==
    /\ aggPhase = "idle"
    /\ aggPhase' = "done"
    /\ aggOut' = SearchAllPlatforms(raw_results, aggLimit)
    /\ UNCHANGED <<raw_results, aggLimit>>
    /\ AggFrame

\* search_all_platforms with SearXNG answering another status or the request
\* raising: _search_searxng returns [] (lines 134-140).
AggSearchFail ==
    /\ aggPhase = "idle"
    /\ aggPhase' = "failed"
    /\ aggOut' = SearchAllPlatforms(<<>>, aggLimit)
    /\ UNCHANGED <<raw_results, aggLimit>>
    /\ AggFrame

\* ================================================================== playlists
MaxImported == 2
MaxAdds == 3

PlaylistIds == {1, 2}
Sessions == {1, 2}
\* The ids present in table tracks; 0 stands for a missing track_id or
\* position parameter, 9 for an id that is in no table.
Tracks == {1, 2}
NoParam == 0
IdleRequest ==
    [pc |-> "idle", playlist |-> 0, track_id |-> 0, position |-> 0, row |-> 0, remaining |-> {}]

\* A playlist of k rows as the database holds it at the start: positions
\* 0..k-1 (UniqueConstraint uq_playlist_position, rows numbered by enumerate).
DenseRows(pl, k) ==
    {[id |-> 10 * pl + i, track_id |-> 1 + (i % 2), position |-> i] : i \in 0..(k - 1)}

\* playlist.update_total_duration(): class Playlist defines no such method
\* and db.Model is the plain Flask-SQLAlchemy base, so the call raises
\* AttributeError.
HasUpdateTotalDuration == FALSE

\* Mutant: a rollback leaves the flushed DELETE in place.
RollbackKeepsFlushed(rows, flushed) == {r \in rows : r.id # flushed}

\* db.session.rollback(): the committed rows stay as they were, whatever the
\* session had flushed.
Rollback(rows, flushed) == rows

\* Lines 226-230: the position after the last one, 0 for an empty playlist.
NextPosition(rows) ==
    IF rows = {} THEN 0
    ELSE 1 + (CHOOSE p \in {r.position : r \in rows} : \A r \in rows : r.position <= p)

\* The primary key the database gives a new row.
NewRowId ==
    LET ids == UNION {{r.id : r \in ptracks[pl]} : pl \in PlaylistIds}
    IN IF ids = {} THEN 1 ELSE 1 + (CHOOSE i \in ids : \A j \in ids : j <= i)

\* uq_playlist_position holds of a set of rows.
UniquePositions(rows) == \A a, b \in rows : a.position = b.position => a = b

\* Lines 279-288: the row is deleted and the rows read as remaining_tracks get
\* the position read minus one.
Reordered(rows, r) ==
    {IF \E m \in r.remaining : m.id = x.id
     THEN [x EXCEPT !.position = (CHOOSE m \in r.remaining : m.id = x.id).position - 1]
     ELSE x : x \in {y \in rows : y.id # r.row}}

\* playlist_tracks, POST, lines 216-230: the parameter checks and the read of
\* the last position.
DbAddRead(s, pl, t) ==
    /\ dbreq[s].pc = "idle" /\ ureq[s].pc = "idle"
    /\ Cardinality(ptracks[pl]) < MaxAdds
    /\ IF t = NoParam THEN resp' = [resp EXCEPT ![s] = 400] /\ UNCHANGED dbreq
       ELSE IF t \notin Tracks THEN resp' = [resp EXCEPT ![s] = 404] /\ UNCHANGED dbreq
       ELSE /\ dbreq' = [dbreq EXCEPT ![s] =
                   [IdleRequest EXCEPT !.pc = "add", !.playlist = pl, !.track_id = t,
                                       !.position = NextPosition(ptracks[pl])]]
            /\ resp' = [resp EXCEPT ![s] = 0]
    /\ UNCHANGED <<ptracks, dbAdded, dbRemoved, playlists_storage, ureq, uacked, m3u>>
    /\ PlaylistFrame

\* playlist_tracks, POST, lines 233-255: session.add, update_total_duration,
\* commit; any exception rolls back and answers 500.
DbAddFinish(s) ==
    LET r == dbreq[s]
        row == [id |-> NewRowId, track_id |-> r.track_id, position |-> r.position]
        committed == HasUpdateTotalDuration /\ UniquePositions(ptracks[r.playlist] \cup {row})
    IN /\ r.pc = "add"
       /\ ptracks' = [ptracks EXCEPT ![r.playlist] =
                         IF committed THEN @ \cup {row} ELSE Rollback(@, NoParam)]
       /\ resp' = [resp EXCEPT ![s] = IF committed THEN 200 ELSE 500]
       /\ dbAdded' = IF committed THEN dbAdded \cup {row.id} ELSE dbAdded
       /\ dbreq' = [dbreq EXCEPT ![s] = IdleRequest]
       /\ UNCHANGED <<dbRemoved, playlists_storage, ureq, uacked, m3u>>
       /\ PlaylistFrame

\* playlist_tracks, DELETE, lines 257-277: the row is looked up by track_id
\* or by position (.first() of the matches).
DbRemoveRead(s, pl, t, pos) ==
    LET matches == IF t # NoParam THEN {x \in ptracks[pl] : x.track_id = t}
                   ELSE {x \in ptracks[pl] : x.position = pos}
    IN /\ dbreq[s].pc = "idle" /\ ureq[s].pc = "idle"
       /\ IF t = NoParam /\ pos = -1
          THEN resp' = [resp EXCEPT ![s] = 400] /\ UNCHANGED dbreq
          ELSE IF matches = {}
          THEN resp' = [resp EXCEPT ![s] = 404] /\ UNCHANGED dbreq
          ELSE \E x \in matches :
                 /\ dbreq' = [dbreq EXCEPT ![s] =
                        [pc |-> "delete", playlist |-> pl, track_id |-> t,
                         position |-> x.position, row |-> x.id, remaining |-> {}]]
                 /\ resp' = [resp EXCEPT ![s] = 0]
       /\ UNCHANGED <<ptracks, dbAdded, dbRemoved, playlists_storage, ureq, uacked, m3u>>
       /\ PlaylistFrame

\* playlist_tracks, DELETE, lines 279-285: session.delete marks the row; the
\* query for remaining_tracks flushes the DELETE inside the session's
\* transaction (the committed rows stay as they are until the commit) and
\* reads the rows behind the position found, as they are committed by now.
DbRemoveFlush(s) ==
    LET r == dbreq[s]
    IN /\ r.pc = "delete"
       /\ dbreq' = [dbreq EXCEPT ![s].pc = "remove",
                                 ![s].remaining =
                                     {[id |-> y.id, position |-> y.position] :
                                         y \in {z \in ptracks[r.playlist] :
                                                   z.id # r.row /\ z.position > r.position}}]
       /\ UNCHANGED <<ptracks, resp, dbAdded, dbRemoved, playlists_storage, ureq, uacked, m3u>>
       /\ PlaylistFrame

\* playlist_tracks, DELETE, lines 287-300: the positions are lowered,
\* update_total_duration, commit; any exception rolls back and answers 500.
DbRemoveFinish(s) ==
    LET r == dbreq[s]
        after == Reordered(ptracks[r.playlist], r)
        committed == HasUpdateTotalDuration /\ UniquePositions(after)
    IN /\ r.pc = "remove"
       /\ ptracks' = [ptracks EXCEPT ![r.playlist] =
                         IF committed THEN after ELSE Rollback(@, r.row)]
       /\ resp' = [resp EXCEPT ![s] = IF committed THEN 200 ELSE 500]
       /\ dbRemoved' = IF committed THEN dbRemoved \cup {r.row} ELSE dbRemoved
       /\ dbreq' = [dbreq EXCEPT ![s] = IdleRequest]
       /\ UNCHANGED <<dbAdded, playlists_storage, ureq, uacked, m3u>>
       /\ PlaylistFrame

\* ---- UniversalPlaylist, kept in playlists_storage
IdleAdd == [pc |-> "idle", playlist |-> 0, kind |-> "", results |-> <<>>]

\* What SearXNG may answer to the search an add-track request makes.
AddAnswers ==
    {<<>>,
     <<Raw("youtube", "Daft Punk - Around the World"),
       Raw("spotify", "DAFT PUNK - Around The World")>>}

\* add_track_to_playlist, lines 248-253: UnifiedTrack(unified_id, title,
\* artist) from the request body; platforms keeps its default, the empty map.
ObjectTrack ==
    [unified_id |-> <<"daft punk", "get lucky">>, title |-> "Get Lucky",
     artist |-> "Daft Punk", platforms |-> <<>>, popularity_score |-> 0]

\* UniversalPlaylist.add_track: self.tracks.append(track).
AddTrack(tracks, track) == Append(tracks, track)

\* add_track_to_playlist with "query" (limit 1) or "url" (add_track_by_url,
\* limit 5): the aggregated search.
UAddSearch(s, pl, kind, answer) ==
    /\ ureq[s].pc = "idle" /\ dbreq[s].pc = "idle"
    /\ SumOver(uacked, PlaylistIds) < MaxAdds
    /\ ureq' = [ureq EXCEPT ![s] =
           [pc |-> "searched", playlist |-> pl, kind |-> kind,
            results |-> SearchAllPlatforms(answer, IF kind = "query" THEN 1 ELSE 5)]]
    /\ resp' = [resp EXCEPT ![s] = 0]
    /\ UNCHANGED <<ptracks, dbreq, dbAdded, dbRemoved, playlists_storage, uacked, m3u>>
    /\ PlaylistFrame

\* add_track_to_playlist, lines 234-244 and 263-266: the first result is
\* added; without a result "query" answers 404 and "url" answers 200.
UAddFinish(s) ==
    LET r == ureq[s]
    IN /\ r.pc = "searched"
       /\ IF r.results # <<>>
          THEN /\ playlists_storage' =
                     [playlists_storage EXCEPT ![r.playlist] = AddTrack(@, r.results[1])]
               /\ uacked' = [uacked EXCEPT ![r.playlist] = @ + 1]
               /\ resp' = [resp EXCEPT ![s] = 200]
          ELSE /\ UNCHANGED <<playlists_storage, uacked>>
               /\ resp' = [resp EXCEPT ![s] = IF r.kind = "query" THEN 404 ELSE 200]
       /\ ureq' = [ureq EXCEPT ![s] = IdleAdd]
       /\ UNCHANGED <<ptracks, dbreq, dbAdded, dbRemoved, m3u>>
       /\ PlaylistFrame

\* add_track_to_playlist with "unified_track", lines 246-255.
UAddObject(s, pl) ==
    /\ ureq[s].pc = "idle" /\ dbreq[s].pc = "idle"
    /\ SumOver(uacked, PlaylistIds) < MaxAdds
    /\ playlists_storage' = [playlists_storage EXCEPT ![pl] = AddTrack(@, ObjectTrack)]
    /\ uacked' = [uacked EXCEPT ![pl] = @ + 1]
    /\ resp' = [resp EXCEPT ![s] = 200]
    /\ UNCHANGED <<ptracks, dbreq, dbAdded, dbRemoved, ureq, m3u>>
    /\ PlaylistFrame

\* add_track_to_playlist, lines 215-228 and 257-261: an unknown playlist id
\* (404), no body or a body without query, url and unified_track (400).
UAddRejected(s, status) ==
    /\ ureq[s].pc = "idle" /\ dbreq[s].pc = "idle"
    /\ status \in {400, 404}
    /\ resp' = [resp EXCEPT ![s] = status]
    /\ UNCHANGED <<ptracks, dbreq, dbAdded, dbRemoved, playlists_storage, ureq,
                   uacked, m3u>>
    /\ PlaylistFrame

\* export_to_m3u, lines 338-342: the first platform record with a URL.
RECURSIVE FirstUrl(_)
FirstUrl(platforms) ==
    IF platforms = <<>> THEN ""
    ELSE IF Head(platforms).url # "" THEN Head(platforms).url
    ELSE FirstUrl(Tail(platforms))

\* UniversalPlaylist.export_to_m3u: the lines of the text it returns. No code
\* sets duration_ms, so the duration written is -1.
RECURSIVE TrackLines(_)
TrackLines(tracks) ==
    IF tracks = <<>> THEN <<>>
    ELSE (IF FirstUrl(Head(tracks).platforms) # ""
          THEN << <<"#EXTINF:", "-1", Head(tracks).artist, Head(tracks).title>>,
                  <<FirstUrl(Head(tracks).platforms)>>,
                  <<"">> >>
          ELSE <<>>)
         \o TrackLines(Tail(tracks))

ExportToM3u(name, tracks) ==
    << <<"#EXTM3U">>, <<"#PLAYLIST:", name>>, <<"">> >> \o TrackLines(tracks)

NoExport == [playlist |-> 0, lines |-> <<>>]

\* export_playlist with format m3u.
ExportM3u(pl) ==
    /\ m3u' = [playlist |-> pl, lines |-> ExportToM3u("mix", playlists_storage[pl])]
    /\ UNCHANGED <<ptracks, dbreq, dbAdded, dbRemoved, playlists_storage, ureq,
                   resp, uacked>>
    /\ PlaylistFrame

PlaylistIdle ==
    /\ ptracks = [pl \in PlaylistIds |-> {}]
    /\ dbreq = [s \in Sessions |-> IdleRequest]
    /\ resp = [s \in Sessions |-> 0]
    /\ dbAdded = {} /\ dbRemoved = {}
    /\ playlists_storage = [pl \in PlaylistIds |-> <<>>]
    /\ ureq = [s \in Sessions |-> IdleAdd]
    /\ uacked = [pl \in PlaylistIds |-> 0]
    /\ m3u = NoExport

\* The playlists as the requests find them: the database holds some rows
\* loaded beforehand, playlists_storage holds empty playlists.
PlaylistInit ==
    /\ \E k \in [PlaylistIds -> 0..MaxImported] :
          ptracks = [pl \in PlaylistIds |-> DenseRows(pl, k[pl])]
    /\ dbreq = [s \in Sessions |-> IdleRequest]
    /\ resp = [s \in Sessions |-> 0]
    /\ dbAdded = {} /\ dbRemoved = {}
    /\ playlists_storage = [pl \in PlaylistIds |-> <<>>]
    /\ ureq = [s \in Sessions |-> IdleAdd]
    /\ uacked = [pl \in PlaylistIds |-> 0]
    /\ m3u = NoExport

\* The requests a session may serve.
PlaylistStep(s) ==
    \/ \E pl \in PlaylistIds, t \in {NoParam, 1, 9} : DbAddRead(s, pl, t)
    \/ DbAddFinish(s)
    \/ \E pl \in PlaylistIds, t \in {NoParam, 1}, pos \in {-1, 0} : DbRemoveRead(s, pl, t, pos)
    \/ DbRemoveFlush(s)
    \/ DbRemoveFinish(s)
    \/ \E pl \in PlaylistIds, kind \in {"query", "url"}, answer \in AddAnswers :
          UAddSearch(s, pl, kind, answer)
    \/ UAddFinish(s)
    \/ \E pl \in PlaylistIds : UAddObject(s, pl)
    \/ \E status \in {400, 404} : UAddRejected(s, status)

\* ================================================================== sanitation
\* A text is a sequence of pieces, each standing for the characters it shows.
\* The pieces are chosen so that a DANGEROUS_PATTERNS regex matches the
\* characters exactly when the pieces line up as the Match operators say:
\* "on" occurs in no other piece, "java" "script" ":" is the only spelling of
\* javascript:, "<" "script" the only spelling of <script.
MaxText == 4
Pieces == {"<", ">", "</", "script", "java", ":", "on", "=", " ", "data:text/html", "&lt;"}
WordPieces == {"script", "java", "on"}
Texts == UNION {[1..n -> Pieces] : n \in 0..MaxText}

\* html.unescape: &lt; becomes <.
HtmlUnescape(q) == [i \in 1..Len(q) |-> IF q[i] = "&lt;" THEN "<" ELSE q[i]]

\* The least member of a non-empty set of places, 0 for the empty set.
First(S) == IF S = {} THEN 0 ELSE CHOOSE i \in S : \A j \in S : i <= j

\* r'<script[^>]*>.*?</script>' matched at place i: the place of its last
\* piece, 0 when it does not match there. [^>]* stops at the first ">",
\* .*? at the first closing tag after it.
MatchScript(q, i) ==
    IF i + 1 <= Len(q) /\ q[i] = "<" /\ q[i + 1] = "script"
    THEN LET open == First({j \in (i + 2)..Len(q) : q[j] = ">"})
         IN IF open = 0 THEN 0
            ELSE LET close == First({k \in (open + 1)..(Len(q) - 2) :
                                       q[k] = "</" /\ q[k + 1] = "script" /\ q[k + 2] = ">"})
                 IN IF close = 0 THEN 0 ELSE close + 2
    ELSE 0

\* r'javascript:'
MatchJavascript(q, i) ==
    IF i + 2 <= Len(q) /\ q[i] = "java" /\ q[i + 1] = "script" /\ q[i + 2] = ":"
    THEN i + 2 ELSE 0

\* The last place of the run of pieces of S that starts at place i (i - 1 when
\* q[i] is not in S).
RECURSIVE RunEnd(_, _, _)
RunEnd(q, i, S) == IF i <= Len(q) /\ q[i] \in S THEN RunEnd(q, i + 1, S) ELSE i - 1

\* r'on\w+\s*=': "on", at least one word character, spaces, "=". The word
\* characters that open data:text/html are followed by ":".
MatchHandler(q, i) ==
    IF i <= Len(q) /\ q[i] = "on"
    THEN LET w == RunEnd(q, i + 1, WordPieces)
             s == RunEnd(q, w + 1, {" "})
         IN IF w >= i + 1 /\ s + 1 <= Len(q) /\ q[s + 1] = "=" THEN s + 1 ELSE 0
    ELSE 0

\* r'data:text/html'
MatchDataUrl(q, i) == IF i <= Len(q) /\ q[i] = "data:text/html" THEN i ELSE 0

\* DANGEROUS_PATTERNS, in the order of the list.
DANGEROUS_PATTERNS == <<"script", "javascript", "handler", "dataurl">>
Match(p, q, i) ==
    CASE p = "script" -> MatchScript(q, i)
      [] p = "javascript" -> MatchJavascript(q, i)
      [] p = "handler" -> MatchHandler(q, i)
      [] p = "dataurl" -> MatchDataUrl(q, i)

\* pattern.search(text) is not None
Matches(p, q) == \E i \in 1..Len(q) : Match(p, q, i) > 0

\* pattern.sub('', text): one scan from the left, every match found is cut out
\* and the scan goes on after it.
RECURSIVE SubFrom(_, _, _)
SubFrom(p, q, i) ==
    IF i > Len(q) THEN <<>>
    ELSE IF Match(p, q, i) > 0 THEN SubFrom(p, q, Match(p, q, i) + 1)
    ELSE <<q[i]>> \o SubFrom(p, q, i + 1)
Sub(p, q) == SubFrom(p, q, 1)

\* for pattern in self.dangerous_regex: text = pattern.sub('', text)
RECURSIVE RemoveDangerous(_, _)
RemoveDangerous(ps, q) ==
    IF ps = <<>> THEN q ELSE RemoveDangerous(Tail(ps), Sub(Head(ps), q))

\* whitespace_regex.sub(' ', text): a run of spaces becomes one space.
RECURSIVE NormalizeWhitespace(_)
NormalizeWhitespace(q) ==
    IF q = <<>> THEN <<>>
    ELSE IF Head(q) = " " /\ Len(q) >= 2 /\ q[2] = " " THEN NormalizeWhitespace(Tail(q))
    ELSE <<Head(q)>> \o NormalizeWhitespace(Tail(q))

\* text.strip()
RECURSIVE StripLeft(_)
StripLeft(q) == IF q # <<>> /\ Head(q) = " " THEN StripLeft(Tail(q)) ELSE q
RECURSIVE StripRight(_)
StripRight(q) ==
    IF q # <<>> /\ q[Len(q)] = " " THEN StripRight(SubSeq(q, 1, Len(q) - 1)) ELSE q

\* DataValidator._sanitize_text
SanitizeTextPieces(q) ==
    IF q = <<>> THEN <<>>
    ELSE StripRight(StripLeft(NormalizeWhitespace(
             RemoveDangerous(DANGEROUS_PATTERNS, HtmlUnescape(q)))))

\* No text sanitized_text yet.
NotSanitized == <<"<not sanitized>">>

SanitizeInit == text \in Texts /\ sanitized_text = NotSanitized

\* sanitize_search_result, line 97: a text field goes through _sanitize_text.
Sanitize ==
    /\ sanitized_text = NotSanitized
    /\ sanitized_text' = SanitizeTextPieces(text)
    /\ UNCHANGED <<text, raw_result, standardized, restandardized>>
    /\ NormFrame

\* ================================================================== normalization
\* A raw result is a dict: a function from its keys to values. Artist strings
\* are sequences of words ("feat." among them), durations the sequences of
\* numbers that ":" separates ("3:45" is <<3, 45>>, "225" is <<225>>), dates
\* the sequences of numbers that "-" separates.
With(d, k, v) == [x \in DOMAIN d \cup {k} |-> IF x = k THEN v ELSE d[x]]
DictGet(d, k, default) == IF k \in DOMAIN d THEN d[k] ELSE default

\* MusicEngineBase.parse_duration on str(duration): seconds, MM:SS or
\* HH:MM:SS, in milliseconds.
ParseDuration(d) ==
    CASE Len(d) = 1 -> d[1] * 1000
      [] Len(d) = 2 -> (d[1] * 60 + d[2]) * 1000
      [] Len(d) = 3 -> (d[1] * 3600 + d[2] * 60 + d[3]) * 1000
      [] OTHER -> 0

\* An artist string is its words in order, a single space between two of
\* them; a first piece " " is whitespace the string begins with.
\* The place of the first "feat." with whitespace before it and a word after
\* it, 0 when there is none: r'\s+(?:feat\.|ft\.|featuring)\s+.*$'.
FeatAt(a) == First({i \in 2..(Len(a) - 1) : a[i] = "feat."})

\* ' '.join(artist.split()).strip(): the words without the whitespace around.
Words(a) == SelectSeq(a, LAMBDA p : p # " ")

\* MusicEngineBase.normalize_artist
NormalizeArtist(a) ==
    Words(IF FeatAt(a) = 0 THEN a ELSE SubSeq(a, 1, FeatAt(a) - 1))

\* MusicEngineBase.extract_featured_artists: the primary artist, then what
\* follows the first "feat." (r'(?:feat\.|ft\.|featuring)\s+(.+)$').
ExtractFeaturedArtists(a) ==
    LET f == First({i \in 1..(Len(a) - 1) : a[i] = "feat."})
    IN (IF NormalizeArtist(a) # <<>> THEN <<NormalizeArtist(a)>> ELSE <<>>)
         \o (IF f = 0 THEN <<>> ELSE <<SubSeq(a, f + 1, Len(a))>>)

\* A date string "YYYY-MM-DD" is <<year, month, day>>; <<>> is the empty
\* string and 0 stands for None.
\* The days of a month of the proleptic Gregorian calendar (datetime).
DaysInMonth(y, m) ==
    IF m = 2
    THEN (IF y % 4 = 0 /\ (y % 100 # 0 \/ y % 400 = 0) THEN 29 ELSE 28)
    ELSE IF m \in {4, 6, 9, 11} THEN 30 ELSE 31

\* datetime.strptime(date_str, '%Y-%m-%d') succeeds; the other formats of the
\* loop never match a string of this form.
Strptime(date) ==
    /\ 1 <= date[1] /\ date[1] <= 9999
    /\ 1 <= date[2] /\ date[2] <= 12
    /\ 1 <= date[3] /\ date[3] <= DaysInMonth(date[1], date[2])

\* MusicEngineBase.extract_year: a year 19xx or 20xx found in the string by
\* the regular expression (month and day have two digits and never match),
\* or else the year of the parsed date.
ExtractYear(date) ==
    IF date = <<>> THEN 0
    ELSE IF date[1] >= 1900 /\ date[1] <= 2099 THEN date[1]
    ELSE IF Strptime(date) THEN date[1]
    ELSE 0

\* hashlib.md5(title + url).hexdigest()[:16]
Md5Key(title, url) == <<"md5", title, url>>

\* The keys standardize_result has set before it fills engine_data.
StandardKeys(raw) ==
    {"url", "title", "content", "template", "artist", "artists"}
      \cup ({"album", "preview_url", "thumbnail", "release_date", "genres", "isrc", "mbid"}
              \cap DOMAIN raw)
      \cup (IF "duration" \in DOMAIN raw /\ ParseDuration(raw["duration"]) # 0
            THEN {"duration_ms"} ELSE {})
      \cup (IF "image" \in DOMAIN raw THEN {"thumbnail"} ELSE {})
      \cup (IF "release_date" \in DOMAIN raw /\ ExtractYear(raw["release_date"]) # 0
            THEN {"year"} ELSE {})
      \cup (IF "genre" \in DOMAIN raw THEN {"genres"} ELSE {})

\* The content field: artist, album and m:ss, the parts ' • ' joins.
ContentParts(artist, album, ms) ==
    (IF artist # <<>> THEN <<artist>> ELSE <<>>)
      \o (IF album # "" THEN <<<<"Album:", album>>>> ELSE <<>>)
      \o (IF ms # 0 THEN <<<<(ms \div 1000) \div 60, (ms \div 1000) % 60>>>> ELSE <<>>)

\* MusicEngineBase.standardize_result. A value under "genres" is a list in
\* every dict drawn; a missing duration_ms reads NoDuration in the metadata.
StandardizeResult(raw) ==
    LET artist_str == DictGet(raw, "artist", <<>>)
        artist == NormalizeArtist(artist_str)
        ms == IF "duration" \in DOMAIN raw THEN ParseDuration(raw["duration"]) ELSE 0
        album == DictGet(raw, "album", "")
        genres == IF "genres" \in DOMAIN raw THEN raw["genres"]
                  ELSE IF "genre" \in DOMAIN raw THEN <<raw["genre"]>> ELSE <<>>
        set == StandardKeys(raw)
    IN [k \in set \cup {"engine_data", "metadata", "key"} |->
          CASE k = "url" -> DictGet(raw, "url", "")
            [] k = "title" -> DictGet(raw, "title", "")
            [] k = "content" -> ContentParts(artist, album, ms)
            [] k = "template" -> "default.html"
            [] k = "artist" -> artist
            [] k = "artists" -> ExtractFeaturedArtists(artist_str)
            [] k = "duration_ms" -> ms
            [] k = "thumbnail" -> DictGet(raw, "thumbnail", DictGet(raw, "image", ""))
            [] k = "year" -> ExtractYear(raw["release_date"])
            [] k = "genres" -> genres
            [] k = "engine_data" -> [x \in DOMAIN raw \ set |-> raw[x]]
            [] k = "metadata" ->
                 [artist |-> artist, track |-> DictGet(raw, "title", ""), album |-> album,
                  duration |-> IF ms # 0 THEN ms ELSE NoDuration, genres |-> genres]
            [] k = "key" -> Md5Key(DictGet(raw, "title", ""), DictGet(raw, "url", ""))
            [] OTHER -> raw[k]]

\* The raw results drawn: url and title, and any of artist, album, duration,
\* genre, release_date and key.
RawBase ==
    [url |-> "https://soundcloud.com/daftpunk/around-the-world", title |-> "Around the World"]
Extend(S, k, V) == S \cup {With(d, k, v) : d \in S, v \in V}
RawDicts ==
    Extend(Extend(Extend(Extend(Extend(Extend({RawBase},
        "artist", {<<"Daft Punk">>, <<"Daft Punk", "feat.", "Pharrell">>,
                   <<"feat.", "Pharrell">>, <<" ", "feat.", "Pharrell">>}),
        "album", {"Homework"}),
        "duration", {<<0>>, <<225>>, <<3, 45>>}),
        "genre", {"house"}),
        "release_date", {<<1997, 13, 45>>, <<1899, 1, 20>>, <<2100, 2, 29>>}),
        "key", {"k1"})

\* Nothing standardized yet.
NotStandardized == [pending |-> TRUE]

NormIdle ==
    /\ text = <<>>
    /\ sanitized_text = NotSanitized
    /\ raw_result = RawBase
    /\ standardized = NotStandardized
    /\ restandardized = NotStandardized

StandardizeInit ==
    /\ raw_result \in RawDicts
    /\ standardized = NotStandardized
    /\ restandardized = NotStandardized

\* An engine standardizes a raw result.
Standardize ==
    /\ standardized = NotStandardized
    /\ standardized' = StandardizeResult(raw_result)
    /\ UNCHANGED <<text, sanitized_text, raw_result, restandardized>>
    /\ NormFrame

\* The standardized result is standardized again.
Restandardize ==
    /\ standardized # NotStandardized
    /\ restandardized = NotStandardized
    /\ restandardized' = StandardizeResult(standardized)
    /\ UNCHANGED <<text, sanitized_text, raw_result, standardized>>
    /\ NormFrame

\* ================================================================== durations
\* A duration string is a sequence of tokens: a run of digits with its value,
\* or one of the characters : P T H M S m s and the space.
MaxPart == 2
Num(n) == [k |-> "num", n |-> n]
Chr(c) == [k |-> c, n |-> 0]

\* The duration strings drawn, by form and parts: h:mm:ss, m:ss, ISO 8601
\* PT#H#M#S (a part of 0 is left out), "3m 45s", and a bare integer.
Durations ==
    {[form |-> "h:mm:ss", h |-> h, m |-> m, s |-> s] :
        h \in 0..MaxPart, m \in 0..MaxPart, s \in 0..MaxPart}
      \cup {d \in [form : {"iso"}, h : 0..MaxPart, m : 0..MaxPart, s : 0..MaxPart] :
              d.h + d.m + d.s > 0}
      \cup {[form |-> "m:ss", h |-> 0, m |-> m, s |-> s] :
              m \in 0..MaxPart, s \in 0..MaxPart}
      \cup {[form |-> "units", h |-> 0, m |-> m, s |-> s] :
              m \in 1..MaxPart, s \in 1..MaxPart}
      \cup {[form |-> "int", h |-> 0, m |-> 0, s |-> n] : n \in {0, 225, 999, 1000, 5000}}

\* The text of a duration.
DurationText(d) ==
    CASE d.form = "h:mm:ss" -> <<Num(d.h), Chr(":"), Num(d.m), Chr(":"), Num(d.s)>>
      [] d.form = "m:ss" -> <<Num(d.m), Chr(":"), Num(d.s)>>
      [] d.form = "iso" ->
           <<Chr("P"), Chr("T")>>
             \o (IF d.h > 0 THEN <<Num(d.h), Chr("H")>> ELSE <<>>)
             \o (IF d.m > 0 THEN <<Num(d.m), Chr("M")>> ELSE <<>>)
             \o (IF d.s > 0 THEN <<Num(d.s), Chr("S")>> ELSE <<>>)
      [] d.form = "units" -> <<Num(d.m), Chr("m"), Chr(" "), Num(d.s), Chr("s")>>
      [] d.form = "int" -> <<Num(d.s)>>

\* duration_str.split(':'): the pieces between the colons.
RECURSIVE SplitColon(_)
SplitColon(q) ==
    LET c == First({i \in 1..Len(q) : q[i].k = ":"})
    IN IF c = 0 THEN <<q>>
       ELSE <<SubSeq(q, 1, c - 1)>> \o SplitColon(SubSeq(q, c + 1, Len(q)))

\* int(part) succeeds on a run of digits.
IsInt(part) == Len(part) = 1 /\ part[1].k = "num"

\* re.search(r'(\d+)\s*m', ..., re.IGNORECASE): the digits of the first match,
\* 0 when there is none (the caller treats no match and 0 alike).
UnitValue(q, letters) ==
    LET at == First({i \in 1..Len(q) :
                       /\ q[i].k = "num"
                       /\ RunEnd(q, i + 1, {Chr(" ")}) + 1 <= Len(q)
                       /\ q[RunEnd(q, i + 1, {Chr(" ")}) + 1].k \in letters})
    IN IF at = 0 THEN 0 ELSE q[at].n

\* MusicEngineBase.parse_duration on the text; NoDuration stands for None.
ParseDurationText(q) ==
    LET parts == SplitColon(q)
        minutes == UnitValue(q, {"m", "M"})
        seconds == UnitValue(q, {"s", "S"})
        units == IF minutes # 0 \/ seconds # 0 THEN (minutes * 60 + seconds) * 1000
                 ELSE NoDuration
    IN IF q = <<>> THEN NoDuration
       ELSE IF IsInt(q) THEN q[1].n * 1000
       ELSE IF Len(parts) \in {2, 3}
       THEN IF \A i \in 1..Len(parts) : IsInt(parts[i])
            THEN IF Len(parts) = 2
                 THEN (parts[1][1].n * 60 + parts[2][1].n) * 1000
                 ELSE (parts[1][1].n * 3600 + parts[2][1].n * 60 + parts[3][1].n) * 1000
            ELSE NoDuration
       ELSE units

NoDurationDrawn == [form |-> "none", h |-> 0, m |-> 0, s |-> 0]
NotParsed == NoDuration - 1

DurIdle == duration_str = NoDurationDrawn /\ duration_ms = NotParsed
DurInit == duration_str \in Durations /\ duration_ms = NotParsed

\* An engine parses the duration of a result.
ParseDurationCall ==
    /\ duration_ms = NotParsed
    /\ duration_ms' = ParseDurationText(DurationText(duration_str))
    /\ UNCHANGED <<duration_str, adapterVars, classVars, ownerVars, aclVars, probeVars, validVars>>
    /\ UNCHANGED <<clock, limiterVars, cacheVars, searchVars, aggVars, playlistVars, normVars>>

\* ================================================================== adapters
\* The HTTP responses drawn: a status, a Retry-After header (0: none) and a
\* body that is a JSON document with one item, one with an "error" member,
\* or not JSON at all.
Statuses == {200, 204, 400, 403, 404, 429, 500, 503}
ApiResponses ==
    [adapter : {"youtube_music", "discogs_music"}, status : Statuses,
     retry_after : {0, 60}, body : {"items", "error", "invalid"}]

\* What an adapter does: it returns a number of results or raises an error,
\* which may carry a status code and a retry-after delay (0: not carried).
Return(n) ==
    [kind |-> "return", results |-> n, error |-> "", status_code |-> 0, retry_after |-> 0]
Raise(error, status_code) ==
    [kind |-> "raise", results |-> 0, error |-> error, status_code |-> status_code,
     retry_after |-> 0]

\* youtube_music.response
YoutubeResponse(r) ==
    IF r.status = 403 THEN Raise("Exception", 0)
    ELSE IF r.status # 200 THEN Return(0)
    ELSE IF r.body = "invalid" THEN Return(0)
    ELSE IF r.body = "error" THEN Raise("Exception", 0)
    ELSE Return(1)

\* requests.Response.raise_for_status raises on 4xx and 5xx.
RaiseForStatus(status) == status >= 400 /\ status < 600

\* DiscogsEngine._search: the APIError raised for 429 inside the try block is
\* caught by its except clause and raised again as a new APIError built from
\* the message alone, as are the errors of raise_for_status and json().
DiscogsSearch(r) ==
    IF r.status = 429 THEN Raise("APIError", 0)
    ELSE IF RaiseForStatus(r.status) THEN Raise("APIError", 0)
    ELSE IF r.body = "invalid" THEN Raise("APIError", 0)
    ELSE Return(1)

NoApiResponse == [adapter |-> "", status |-> 0, retry_after |-> 0, body |-> ""]
NoOutcome == [kind |-> "", results |-> 0, error |-> "", status_code |-> 0, retry_after |-> 0]
AdapterIdle == api_response = NoApiResponse /\ outcome = NoOutcome
AdapterInit == api_response \in ApiResponses /\ outcome = NoOutcome

AdapterFrame ==
    /\ UNCHANGED <<api_response, durVars, classVars, ownerVars, aclVars, probeVars, validVars>>
    /\ UNCHANGED <<clock, limiterVars, cacheVars, searchVars, aggVars, playlistVars, normVars>>

\* The YouTube adapter handles the response.
YoutubeHandle ==
    /\ outcome = NoOutcome /\ api_response.adapter = "youtube_music"
    /\ outcome' = YoutubeResponse(api_response)
    /\ AdapterFrame

\* The Discogs adapter handles the response.
DiscogsHandle ==
    /\ outcome = NoOutcome /\ api_response.adapter = "discogs_music"
    /\ outcome' = DiscogsSearch(api_response)
    /\ AdapterFrame

\* ================================================================== pipeline
\* The buffers handed to the pipeline of search(): up to MaxBuffer results of
\* the catalogue, each tagged with an engine of the registry.
MaxBuffer == 2
PipelineEngines == {"soundcloud", "deezer", "radio paradise"}
TaggedResults ==
    {TagResult(r, e) : r \in {RadioResult, TrackResult, TaintedResult}, e \in PipelineEngines}
Buffers == UNION {[1..n -> TaggedResults] : n \in 0..MaxBuffer}

NotClassified == <<[pending |-> TRUE]>>
ClassIdle == cresult = <<>> /\ classification = NotClassified
PipelineInit == cresult \in Buffers /\ classification = NotClassified

ClassFrame ==
    /\ UNCHANGED <<cresult, durVars, adapterVars, ownerVars, aclVars, probeVars, validVars>>
    /\ UNCHANGED <<clock, limiterVars, cacheVars, searchVars, aggVars, playlistVars, normVars>>

\* search(), lines 90-104: sanitize, normalize, classify and filter,
\* deduplicate.
PipelineCall ==
    /\ classification = NotClassified
    /\ classification' = Pipeline(cresult)
    /\ ClassFrame

\* ================================================================== classifier
\* The results classified one by one: title, url, content and engine, and for
\* some an artist field of their own.
PlainResults ==
    [title : {"Morning Radio", "Daft Punk - Around the World", "Song"},
     url : {"https://x.example/a", "https://live.example/a",
            "https://www.youtube.com/watch?v=x"},
     content : {"", "best station", "3:45", "2:00:00", "weekly podcast"},
     engine : {"deezer", "soundcloud", "radio browser", "youtube"}]
ClassifierInputs == PlainResults \cup {With(r, "artist", "Daft Punk") : r \in PlainResults}

ClassifyInit == cresult \in ClassifierInputs /\ classification = <<>>

\* classify is called on the result, a first and a second time.
ClassifyCall ==
    /\ Len(classification) < 2
    /\ classification' = Append(classification, ClassifyWithConfidence(cresult))
    /\ ClassFrame

\* ================================================================== validation
\* The engine names given: one the registry and the validator both know, one
\* only the registry knows, one only the validator knows, one neither knows.
EngineNames == {"soundcloud", "bandcamp", "bandcamp enhanced", "radio browser"}
MaxEngines == 2
EngineLists == UNION {[1..n -> EngineNames] : n \in 0..MaxEngines}

\* Nothing returned yet.
NotValidated == <<>>
ValidIdle == vinput = <<>> /\ is_valid = NotValidated
ValidateInit ==
    /\ vinput \in [query : Queries, engines : EngineLists]
    /\ is_valid = NotValidated

\* validate_search_input is called on the query and the engines.
ValidateCall ==
    /\ is_valid = NotValidated
    /\ is_valid' = <<ValidateSearchInput(vinput.query, vinput.engines)>>
    /\ UNCHANGED <<vinput, durVars, adapterVars, classVars, ownerVars, aclVars, probeVars>>
    /\ UNCHANGED <<clock, limiterVars, cacheVars, searchVars, aggVars, playlistVars, normVars>>

\* ================================================================== limiter, other operations
\* One call of get_remaining or of reset is followed; before it, there is
\* only the number 0 of calls made.
NoProbe == [n |-> 0]
LimiterProbeIdle == remaining = NoProbe /\ was_reset = NoProbe

\* The calls granted to an identifier so far.
GrantsOf(e) == SumOver(grants[e], 0..MaxClock)

\* Mutant: the store drops every key.
DelEveryKey(z, key) == [k \in DOMAIN z |-> {}]

\* self.redis.delete(key) on the keys of the limiter.
DelKey(z, key) == [z EXCEPT ![key] = {}]

\* The lowest score of a sorted set: ZRANGE key 0 0 WITHSCORES.
OldestScore(z) == (CHOOSE x \in z : \A y \in z : x.score <= y.score).score

ProbeFrame ==
    /\ UNCHANGED <<limit, period, pc, now, ident, result, errored, grants>>
    /\ UNCHANGED <<cleared, durVars, adapterVars, classVars, ownerVars, aclVars, validVars>>
    /\ UNCHANGED <<clock, cacheVars, searchVars, aggVars, playlistVars, normVars>>

\* RateLimiter.reset(identifier), lines 129-131: delete the key, return True.
\* Any client may call it, also while a caller is inside acquire. was_reset
\* notes what the call found (count, the grants logged so far) and the
\* window it left.
Reset(e) ==
    /\ remaining = NoProbe /\ was_reset = NoProbe
    /\ zset' = DelKey(zset, e)
    /\ expireAt' = [expireAt EXCEPT ![e] = NoExpiry]
    /\ was_reset' = [n |-> was_reset.n + 1, identifier |-> e, returned |-> TRUE,
                     count |-> ZCard(zset[e]), grants |-> GrantsOf(e), left |-> {}]
    /\ UNCHANGED remaining
    /\ ProbeFrame

\* reset, lines 133-135: the DEL raises; the except branch logs and returns
\* False, and the key stays in the store with its entries and its TTL.
ResetStoreError(e) ==
    /\ remaining = NoProbe /\ was_reset = NoProbe
    /\ was_reset' = [n |-> was_reset.n + 1, identifier |-> e, returned |-> FALSE,
                     count |-> ZCard(zset[e]), grants |-> GrantsOf(e), left |-> zset[e]]
    /\ UNCHANGED <<zset, expireAt, remaining>>
    /\ ProbeFrame

\* RateLimiter.get_remaining(identifier, limit, period) is a client of its
\* own: it reads the clock and then sends three commands, one round trip
\* each, with the commands of other clients between them. `remaining` holds
\* the call's position (at), its locals and, once returned, its answer.
\* get_remaining, lines 85-86: now = int(time.time()); the key is built.
GetRemainingStart(e) ==
    /\ remaining = NoProbe /\ was_reset = NoProbe
    /\ remaining' = [n |-> remaining.n + 1, identifier |-> e, at |-> "zremrangebyscore",
                     now |-> clock]
    /\ UNCHANGED <<zset, expireAt, was_reset>>
    /\ ProbeFrame

\* get_remaining, line 89: self.redis.zremrangebyscore(key, 0, now - period).
GetRemainingPrune ==
    /\ remaining.n > 0 /\ remaining.at = "zremrangebyscore"
    /\ LET e == remaining.identifier
           pruned == ZRemRangeByScore(zset[e], 0, remaining.now - period)
       IN /\ zset' = [zset EXCEPT ![e] = pruned]
          /\ expireAt' = [expireAt EXCEPT ![e] = IF pruned = {} THEN NoExpiry ELSE @]
    /\ remaining' = [remaining EXCEPT !.at = "zcard"]
    /\ UNCHANGED was_reset
    /\ ProbeFrame

\* get_remaining, line 92: current_count = self.redis.zcard(key).
GetRemainingCount ==
    /\ remaining.n > 0 /\ remaining.at = "zcard"
    /\ remaining' = [n |-> remaining.n, identifier |-> remaining.identifier,
                     at |-> "zrange", now |-> remaining.now,
                     current_count |-> ZCard(zset[remaining.identifier])]
    /\ UNCHANGED <<zset, expireAt, was_reset>>
    /\ ProbeFrame

\* get_remaining, lines 95-107: the oldest entry is read and the answer built.
GetRemainingOldest ==
    /\ remaining.n > 0 /\ remaining.at = "zrange"
    /\ LET oldest_entries == zset[remaining.identifier]
       IN remaining' =
             [n |-> remaining.n, identifier |-> remaining.identifier, at |-> "returned",
              remaining |-> IF limit - remaining.current_count > 0
                            THEN limit - remaining.current_count ELSE 0,
              limit |-> limit,
              reset |-> IF oldest_entries = {} THEN None
                        ELSE OldestScore(oldest_entries) + period,
              reset_in |-> IF oldest_entries = {} THEN period
                           ELSE OldestScore(oldest_entries) + period - remaining.now]
    /\ UNCHANGED <<zset, expireAt, was_reset>>
    /\ ProbeFrame

\* get_remaining, lines 109-116: a store command raises; the except branch
\* answers the whole limit and no reset time.
GetRemainingStoreError ==
    /\ remaining.n > 0 /\ remaining.at \in {"zremrangebyscore", "zcard", "zrange"}
    /\ remaining' =
          [n |-> remaining.n, identifier |-> remaining.identifier, at |-> "returned",
           remaining |-> limit, limit |-> limit, reset |-> None, reset_in |-> None]
    /\ UNCHANGED <<zset, expireAt, was_reset>>
    /\ ProbeFrame

\* One call of get_remaining. MultiEngineRateLimiter.get_all_stats, lines
\* 175-179, makes this call for one enabled engine after the other.
GetRemaining ==
    \/ \E e \in Identifiers : GetRemainingStart(e)
    \/ GetRemainingPrune
    \/ GetRemainingCount
    \/ GetRemainingOldest
    \/ GetRemainingStoreError

\* ================================================================== cache, purge
\* A key and a pattern are their segments between colons; "*" is a segment
\* of a pattern that stands for any text.
KeySegments(k) ==
    CASE k = "music:search:bandcamp:h" -> <<"music", "search", "bandcamp", "h">>
      [] k = "music:search:soundcloud:h" -> <<"music", "search", "soundcloud", "h">>
Patterns ==
    {<<"music", "search", "bandcamp", "*">>, <<"music", "search", "*">>, <<"*">>,
     <<"music", "*", "h">>, <<"music", "lyrics", "*">>,
     <<"music", "search", "soundcloud", "h">>}

RECURSIVE GlobMatch(_, _)
\* Redis KEYS pattern: the glob match of a pattern with a key. The text a "*"
\* between two colons stands for may hold colons of its own.
GlobMatch(p, t) ==
    IF p = <<>> THEN t = <<>>
    ELSE IF t = <<>> THEN FALSE
    ELSE IF Head(p) = "*" THEN GlobMatch(Tail(p), Tail(t)) \/ GlobMatch(p, Tail(t))
    ELSE Head(p) = Head(t) /\ GlobMatch(Tail(p), Tail(t))

\* Mutant: KEYS answers every key of the store.
RedisKeysAll(store, p) == {k \in Keys : store[FullKey(k)].present}

\* self.redis_client.keys(f"{self.key_prefix}:{pattern}"): the keys of the
\* store that match the pattern under the prefix.
RedisKeysMatching(store, p) ==
    {k \in Keys : /\ store[FullKey(k)].present
                  /\ GlobMatch(<<key_prefix>> \o p, <<key_prefix>> \o KeySegments(k))}

PurgeFrame ==
    /\ UNCHANGED <<enabled, compression, getResult>>
    /\ UNCHANGED <<remaining, was_reset, durVars, adapterVars, classVars, ownerVars,
                   aclVars, validVars>>
    /\ UNCHANGED <<clock, limiterVars, searchVars, aggVars, playlistVars, normVars>>

\* The keys the store holds that pattern p matches.
MatchedNow(p) == {k \in Keys : cstore[FullKey(k)].present /\ GlobMatch(p, KeySegments(k))}

\* MusicCache.clear_pattern(pattern), lines 149-155 and 159: a disabled cache
\* answers 0; otherwise KEYS is sent, and without a key found the answer is 0.
\* `cleared` holds the call's position (at), its local `keys` and its answer,
\* and notes the keys that matched when the call was made and whether the
\* store raised.
ClearPattern(p) ==
    /\ cleared = NoProbe
    /\ LET keys == IF enabled THEN RedisKeysMatching(cstore, p) ELSE {}
       IN cleared' = [n |-> 1, pattern |-> p, keys |-> keys, matched |-> MatchedNow(p),
                      at |-> IF keys = {} THEN "returned" ELSE "delete",
                      returned |-> 0, left |-> {}, raised |-> FALSE]
    /\ UNCHANGED <<cstore, written>>
    /\ PurgeFrame

\* clear_pattern, line 157: return self.redis_client.delete(*keys). DEL is a
\* command of its own, sent after the commands other clients got in since
\* KEYS; it answers the number of keys it removed. `left` notes the keys the
\* pattern matches that the store holds when the call returns.
ClearPatternDelete ==
    /\ cleared.n > 0 /\ cleared.at = "delete"
    /\ cstore' = [fk \in RedisKeys |->
                    IF \E k \in cleared.keys : fk = FullKey(k) THEN NoEntry ELSE cstore[fk]]
    /\ written' = [k \in Keys |-> IF k \in cleared.keys THEN NoWrite ELSE written[k]]
    /\ cleared' = [cleared EXCEPT
                      !.at = "returned",
                      !.returned = Cardinality({k \in cleared.keys : cstore[FullKey(k)].present}),
                      !.left = MatchedNow(cleared.pattern) \ cleared.keys]
    /\ PurgeFrame

\* clear_pattern, lines 161-163: KEYS or DEL raises; the except branch logs
\* and returns 0, and the store keeps what it holds.
ClearPatternStoreError ==
    /\ \/ /\ cleared = NoProbe /\ enabled
          /\ \E p \in Patterns :
                cleared' = [n |-> 1, pattern |-> p, keys |-> {}, matched |-> MatchedNow(p),
                            at |-> "returned", returned |-> 0, left |-> MatchedNow(p),
                            raised |-> TRUE]
       \/ /\ cleared.n > 0 /\ cleared.at = "delete"
          /\ cleared' = [cleared EXCEPT !.at = "returned", !.returned = 0,
                                        !.left = MatchedNow(cleared.pattern),
                                        !.raised = TRUE]
    /\ UNCHANGED <<cstore, written>>
    /\ PurgeFrame

\* ================================================================== universal playlists, creators
\* The users that create and list, the names they give and how many
\* playlists are created in one behaviour.
Users == {"alice", "bob"}
PlaylistNames == {"", "mix", "chill"}
MaxCreated == 3

\* hashlib.md5(f"{name}{datetime.now()}").hexdigest()[:8]; the number of the
\* creation stands for the time.
Md5Id(name, t) == <<"md5", name, t>>

\* UniversalPlaylist(name, description): the object as constructed.
NewUniversalPlaylist(name, t) ==
    [id |-> Md5Id(name, t), name |-> name, description |-> "", tracks |-> <<>>,
     created_at |-> t, updated_at |-> t]

\* UniversalPlaylist.to_dict
PlaylistToDict(p) ==
    [id |-> p.id, name |-> p.name, description |-> p.description,
     track_count |-> Len(p.tracks), tracks |-> p.tracks,
     created_at |-> p.created_at, updated_at |-> p.updated_at]

NoListing == [n |-> 0]
OwnerIdle == ustorage = <<>> /\ creators = <<>> /\ listing = NoListing

OwnerFrame ==
    /\ UNCHANGED <<durVars, adapterVars, classVars, aclVars, probeVars, validVars>>
    /\ UNCHANGED <<clock, limiterVars, cacheVars, searchVars, aggVars, playlistVars, normVars>>

\* POST /playlists by user u: without a name 400; else the playlist is built,
\* the user is set in a copy of its dictionary that goes into the answer, and
\* the playlist itself is stored.
CreatePlaylist(u, name) ==
    /\ Cardinality(DOMAIN ustorage) < MaxCreated
    /\ IF name = ""
       THEN UNCHANGED <<ustorage, creators>>
       ELSE LET playlist == NewUniversalPlaylist(name, Cardinality(DOMAIN ustorage) + 1)
            IN /\ ustorage' = ustorage @@ (playlist.id :> playlist)
               /\ creators' = creators @@ (playlist.id :> u)
    /\ UNCHANGED listing
    /\ OwnerFrame

\* GET /playlists by user u: the dictionaries of the stored playlists whose
\* user_id is u.
ListPlaylists(u) ==
    /\ listing' =
          [n |-> listing.n + 1, user |-> u,
           playlists |-> {PlaylistToDict(ustorage[id]) : id \in
                            {i \in DOMAIN ustorage :
                                DictGet(PlaylistToDict(ustorage[i]), "user_id", None) = u}}]
    /\ listing.n < MaxCreated
    /\ UNCHANGED <<ustorage, creators>>
    /\ OwnerFrame

\* ================================================================== playlists, access
\* The users that ask, the playlist ids asked for (2 is in no table until a
\* playlist is created), the bodies of a PUT and of a POST, and how many
\* requests are followed in one behaviour. Each request is served by a session of its own; the sessions
\* run side by side and meet in the committed rows of the database.
UserIds == {1, 2}
AskedPlaylists == {1, 2}
PutBodies ==
    {[name |-> "renamed"], [is_public |-> TRUE], [is_public |-> FALSE],
     [is_collaborative |-> TRUE], [is_collaborative |-> FALSE]}
NoBody == <<>>
PostBodies ==
    {[is_public |-> TRUE], [name |-> ""], [name |-> "new"],
     [name |-> "new", is_public |-> TRUE, is_collaborative |-> TRUE]}
MaxRequests == 2

\* A row of table playlists with the track ids of its playlist_tracks rows,
\* the place of a row that was never inserted and that of a deleted row (the
\* sequence of the primary key does not give its id again).
NoRow == [exists |-> FALSE]
GoneRow == [exists |-> FALSE, deleted |-> TRUE]
PlaylistRows ==
    [exists : {TRUE}, owner_id : UserIds, is_public : BOOLEAN, is_collaborative : BOOLEAN,
     name : {"mix"}, tracks : {<<1>>}]

\* aclreq[s] is the request session s is serving, aclresp the number of
\* requests taken up and the last request answered (who asked, what, for
\* which playlist, the row loaded; not the body), with its status.
NoRequest == [at |-> "idle"]
NoAnswer == [n |-> 0, session |-> 0, request |-> NoRequest, status |-> 0]
AclIdle ==
    /\ playlists = <<>>
    /\ aclreq = [s \in Sessions |-> NoRequest]
    /\ aclresp = NoAnswer
AclInit ==
    /\ playlists \in [AskedPlaylists -> PlaylistRows \cup {NoRow}]
    /\ playlists[1].exists /\ playlists[1].owner_id = 1 /\ ~playlists[2].exists
    /\ aclreq = [s \in Sessions |-> NoRequest]
    /\ aclresp = NoAnswer

AclFrame ==
    /\ UNCHANGED <<durVars, adapterVars, classVars, ownerVars, probeVars, validVars>>
    /\ UNCHANGED <<clock, limiterVars, cacheVars, searchVars, aggVars, playlistVars, normVars>>

\* playlist_detail, line 147: who gets past the first check.
MayRead(p, u) == p.owner_id = u \/ p.is_public

\* Mutant: every user gets past the check.
MayChangeTracksAnyone(p, u) == TRUE

\* playlist_tracks, lines 207-209: who gets past the check.
MayChangeTracks(p, u) == p.owner_id = u \/ p.is_collaborative

\* playlist_detail, PUT, lines 161-170: the fields of the body are set on the
\* object the session loaded.
Updated(p, data) ==
    [k \in DOMAIN p |->
        IF k \in {"name", "description", "is_public", "is_collaborative", "tags"}
           /\ k \in DOMAIN data
        THEN data[k] ELSE p[k]]

\* The UPDATE the commit of a PUT flushes: it sets the columns whose value
\* on the object differs from the value loaded, on the row as it is by now.
Flushed(cur, loaded, obj) ==
    [k \in DOMAIN cur |-> IF obj[k] # loaded[k] THEN obj[k] ELSE cur[k]]

\* The id the sequence of table playlists gives the next row.
NextPlaylistId == 1 + Cardinality({i \in {1, 2} : playlists[i] # NoRow})

\* playlists, POST, lines 113-120: the row of a new playlist.
NewPlaylistRow(u, data) ==
    [exists |-> TRUE, owner_id |-> u,
     is_public |-> IF "is_public" \in DOMAIN data THEN data.is_public ELSE FALSE,
     is_collaborative |->
         IF "is_collaborative" \in DOMAIN data THEN data.is_collaborative ELSE FALSE,
     name |-> data.name, tracks |-> <<>>]

\* The request a session takes up: who asked, what, for which playlist, with
\* which body, and the row the session loaded.
Request(u, route, method, pl, arg, row) ==
    [at |-> "idle", user |-> u, route |-> route, method |-> method,
     playlist |-> pl, arg |-> arg, row |-> row]

\* Session s may take up a request: the sessions are alike, and a request
\* goes to the first one that serves none.
Free(s) ==
    /\ aclreq[s].at = "idle" /\ aclresp.n < MaxRequests
    /\ \A o \in Sessions : o < s => aclreq[o].at # "idle"

\* Session s goes on to `at` with request req (new: taken up in this step).
GoOn(s, req, at, new) ==
    /\ aclreq' = [aclreq EXCEPT ![s] = [req EXCEPT !.at = at]]
    /\ aclresp' = IF new THEN [aclresp EXCEPT !.n = @ + 1, !.session = s] ELSE aclresp

\* Session s answers request req with a status.
Answer(s, req, status, new) ==
    /\ aclreq' = [aclreq EXCEPT ![s] = NoRequest]
    /\ aclresp' = [n |-> IF new THEN aclresp.n + 1 ELSE aclresp.n, session |-> s,
                   request |-> [req EXCEPT !.at = "idle", !.arg = NoBody], status |-> status]

\* POST /playlists by user u, lines 105-124: without a name, or with an
\* empty one (not data.get('name')), 400; otherwise the row is inserted and
\* committed. The commit expires the object (database.py line 5: a session
\* with the default options), so the answer needs the row once more.
PlaylistsPost(s, u, data) ==
    LET req == Request(u, "playlists", "POST", NextPlaylistId, data, NoRow)
    IN /\ Free(s)
       /\ IF "name" \notin DOMAIN data \/ data.name = ""
          THEN Answer(s, req, 400, TRUE) /\ UNCHANGED playlists
          ELSE /\ NextPlaylistId \in AskedPlaylists
               /\ playlists' = [playlists EXCEPT ![NextPlaylistId] = NewPlaylistRow(u, data)]
               /\ GoOn(s, req, "to_dict", TRUE)
       /\ AclFrame

\* playlists, POST, lines 126-134: playlist.to_dict() reads the attributes
\* of the expired object, which selects the row again, 201. When the row is
\* gone by then (another session's DELETE was committed), the refresh
\* raises: the except branch rolls back, where nothing is left to roll back,
\* and answers 500.
PlaylistsPostToDict(s) ==
    LET r == aclreq[s]
    IN /\ r.at = "to_dict" /\ r.route = "playlists"
       /\ Answer(s, r, IF playlists[r.playlist].exists THEN 201 ELSE 500, FALSE)
       /\ UNCHANGED playlists
       /\ AclFrame

\* GET, PUT or DELETE /playlists/<id> by user u, lines 141-157 and 181-185:
\* the row is loaded (get_or_404) and the checks are made on the loaded
\* object. A GET is answered; a PUT or DELETE of the owner goes on to its
\* commit.
PlaylistDetail(s, u, pl, method, data) ==
    LET p == playlists[pl]
        req == Request(u, "detail", method, pl, data, p)
    IN /\ Free(s)
       /\ IF ~p.exists THEN Answer(s, req, 404, TRUE)
          ELSE IF ~MayRead(p, u) THEN Answer(s, req, 403, TRUE)
          ELSE IF method = "GET" THEN Answer(s, req, 200, TRUE)
          ELSE IF p.owner_id # u THEN Answer(s, req, 403, TRUE)
          ELSE GoOn(s, req, "commit", TRUE)
       /\ UNCHANGED playlists
       /\ AclFrame

\* playlist_detail, PUT, lines 159-173: the fields are set and the commit
\* flushes the UPDATE of the columns that changed, if any. When the row is
\* gone by then (another session's DELETE was committed), an UPDATE matches
\* no row: the except branch, lines 176-179, rolls back and answers 500. The
\* commit expires the object, so the answer needs the row once more.
PlaylistDetailPut(s) ==
    LET r == aclreq[s]
        cur == playlists[r.playlist]
        obj == Updated(r.row, r.arg)
    IN /\ r.at = "commit" /\ r.route = "detail" /\ r.method = "PUT"
       /\ IF cur.exists
          THEN /\ playlists' = [playlists EXCEPT ![r.playlist] = Flushed(cur, r.row, obj)]
               /\ GoOn(s, r, "to_dict", FALSE)
          ELSE /\ UNCHANGED playlists
               /\ IF obj # r.row THEN Answer(s, r, 500, FALSE)
                  ELSE GoOn(s, r, "to_dict", FALSE)
       /\ AclFrame

\* playlist_detail, PUT, lines 174-179: playlist.to_dict() reads the
\* attributes of the expired object, which selects the row again, 200. When
\* the row is gone by then, the refresh raises: the except branch rolls
\* back, the UPDATE being committed already, and answers 500.
PlaylistDetailPutToDict(s) ==
    LET r == aclreq[s]
    IN /\ r.at = "to_dict" /\ r.route = "detail"
       /\ Answer(s, r, IF playlists[r.playlist].exists THEN 200 ELSE 500, FALSE)
       /\ UNCHANGED playlists
       /\ AclFrame

\* playlist_detail, DELETE, lines 186-192: session.delete and commit. When
\* the row is gone by then, the DELETE matches no row: the mapper either
\* warns, and the request is answered 200, or raises, and it is answered 500.
PlaylistDetailDelete(s) ==
    LET r == aclreq[s]
        cur == playlists[r.playlist]
    IN /\ r.at = "commit" /\ r.route = "detail" /\ r.method = "DELETE"
       /\ IF cur.exists
          THEN /\ playlists' = [playlists EXCEPT ![r.playlist] = GoneRow]
               /\ Answer(s, r, 200, FALSE)
          ELSE /\ UNCHANGED playlists
               /\ \E status \in {200, 500} : Answer(s, r, status, FALSE)
       /\ AclFrame

\* POST or DELETE /playlists/<id>/tracks by user u with a track_id (NoParam:
\* none, and no position either), lines 201-218 and 260-274: the row of the
\* playlist is loaded, the check is made on the loaded object and the
\* parameters are looked at.
PlaylistTracks(s, u, pl, method, t) ==
    LET p == playlists[pl]
        req == Request(u, "tracks", method, pl, [track_id |-> t], p)
    IN /\ Free(s)
       /\ IF ~p.exists THEN Answer(s, req, 404, TRUE)
          ELSE IF ~MayChangeTracks(p, u) THEN Answer(s, req, 403, TRUE)
          ELSE IF t = NoParam THEN Answer(s, req, 400, TRUE)
          ELSE GoOn(s, req, "read", TRUE)
       /\ UNCHANGED playlists
       /\ AclFrame

\* playlist_tracks, lines 221-230 (POST: the track and the last position are
\* read) and lines 263-277 (DELETE: the row is looked up; 404 without one).
PlaylistTracksRead(s) ==
    LET r == aclreq[s]
        cur == playlists[r.playlist]
        found == /\ cur.exists
                 /\ \E i \in 1..Len(cur.tracks) : cur.tracks[i] = r.arg.track_id
    IN /\ r.at = "read"
       /\ IF r.method = "POST" THEN GoOn(s, r, "finish", FALSE)
          ELSE IF ~found THEN Answer(s, r, 404, FALSE)
          ELSE GoOn(s, r, "flush", FALSE)
       /\ UNCHANGED playlists
       /\ AclFrame

\* playlist_tracks, DELETE, lines 279-285: session.delete, and the query for
\* remaining_tracks, which flushes the DELETE inside the transaction.
PlaylistTracksFlush(s) ==
    /\ aclreq[s].at = "flush"
    /\ GoOn(s, aclreq[s], "finish", FALSE)
    /\ UNCHANGED playlists
    /\ AclFrame

\* playlist_tracks, lines 233-255 and 287-300: update_total_duration and the
\* commit; any exception rolls back and answers 500.
PlaylistTracksFinish(s) ==
    LET r == aclreq[s]
        cur == playlists[r.playlist]
        committed == HasUpdateTotalDuration /\ cur.exists
    IN /\ r.at = "finish"
       /\ IF committed
          THEN playlists' = [playlists EXCEPT ![r.playlist].tracks =
                                IF r.method = "POST" THEN Append(@, r.arg.track_id)
                                ELSE SelectSeq(@, LAMBDA x : x # r.arg.track_id)]
          ELSE playlists' = [pl \in DOMAIN playlists |->
                                IF pl = r.playlist /\ cur.exists
                                THEN [cur EXCEPT !.tracks = Rollback(@, NoParam)]
                                ELSE playlists[pl]]
       /\ Answer(s, r, IF committed THEN 200 ELSE 500, FALSE)
       /\ AclFrame

\* ================================================================== idle
ProbeIdle == LimiterProbeIdle /\ cleared = NoProbe
AuxIdle ==
    DurIdle /\ AdapterIdle /\ ClassIdle /\ OwnerIdle /\ AclIdle /\ ProbeIdle /\ ValidIdle

\* ================================================================== time
\* One second passes; Redis drops the keys whose TTL has run out. Nothing
\* holds the clock while a call is between two of its store commands: a call
\* keeps the second it read into `now` (limiter.py line 43) while the store's
\* clock moves on.
Tick ==
    /\ clock < MaxClock
    /\ clock' = clock + 1
    /\ zset' = [e \in Identifiers |->
                  IF expireAt[e] # NoExpiry /\ clock + 1 >= expireAt[e] THEN {} ELSE zset[e]]
    /\ expireAt' = [e \in Identifiers |->
                  IF expireAt[e] # NoExpiry /\ clock + 1 >= expireAt[e] THEN NoExpiry
                  ELSE expireAt[e]]
    /\ cstore' = [fk \in RedisKeys |->
                  IF cstore[fk].present /\ clock + 1 >= cstore[fk].exp THEN NoEntry
                  ELSE cstore[fk]]
    /\ UNCHANGED <<limit, period, pc, now, ident, result, errored, grants>>
    /\ UNCHANGED <<enabled, compression, written, getResult>>
    /\ UNCHANGED searchVars
    /\ UNCHANGED aggVars
    /\ UNCHANGED playlistVars
    /\ UNCHANGED normVars
    /\ UNCHANGED auxVars

\* ================================================================== specifications
LimiterIdle ==
    /\ limit = 1 /\ period = 1
    /\ zset = [e \in Identifiers |-> {}]
    /\ expireAt = [e \in Identifiers |-> NoExpiry]
    /\ pc = [c \in Callers |-> "idle"]
    /\ now = [c \in Callers |-> 0]
    /\ ident = [c \in Callers |-> "soundcloud"]
    /\ result = [c \in Callers |-> "none"]
    /\ errored = [c \in Callers |-> FALSE]
    /\ grants = [e \in Identifiers |-> [t \in 0..MaxClock |-> 0]]

CacheOff == enabled = TRUE /\ compression = TRUE /\ CacheIdle

InitLimiter == clock = 0 /\ LimiterInit /\ CacheOff /\ SearchIdle /\ AggIdle /\ PlaylistIdle /\ NormIdle /\ AuxIdle
InitCache == clock = 0 /\ LimiterIdle /\ CacheInit /\ SearchIdle /\ AggIdle /\ PlaylistIdle /\ NormIdle /\ AuxIdle
InitSearch == clock = 0 /\ LimiterIdle /\ CacheOff /\ SearchIdle /\ AggIdle /\ PlaylistIdle /\ NormIdle /\ AuxIdle

\* One caller, healthy store.
NextIso == Tick \/ AcquireStep(1)
SpecIso == InitLimiter /\ [][NextIso]_vars

\* Several callers, healthy store.
NextConc == Tick \/ \E c \in Callers : AcquireStep(c)
SpecConc == InitLimiter /\ [][NextConc]_vars

\* One caller, a store that may raise at any call.
NextFault == Tick \/ AcquireStep(1) \/ AcquireStoreError(1)
SpecFault == InitLimiter /\ [][NextFault]_vars

CacheStep ==
    \/ \E k \in Keys, t \in 0..MaxTTL, v \in Strings : Setex(k, t, v)
    \/ \E k \in Keys : Get(k)
    \/ \E k \in Keys : Delete(k)

\* The cache as the only writer of its keys.
NextCache == Tick \/ CacheStep
SpecCache == InitCache /\ [][NextCache]_vars

\* The cache next to a foreign writer on the same database.
NextCacheForeign ==
    Tick \/ CacheStep \/ \E k \in Keys, b \in ForeignPayloads : ForeignWrite(k, b)
SpecCacheForeign == InitCache /\ [][NextCacheForeign]_vars

WorkerStep ==
    \/ \E i \in Workers : WorkerSend(i)
    \/ \E i \in Workers, answer \in Answers : WorkerReturn(i, answer)
    \/ \E i \in Workers : Collect(i)
    \/ SearchReturn

\* The search service, its workers and the backend's answers.
NextSearch ==
    \/ \E q \in Queries, engines \in RequestedEngines, lim \in Limits :
          SearchCall(q, engines, lim)
    \/ WorkerStep
SpecSearch == InitSearch /\ [][NextSearch]_vars

\* The same for one valid query, with the passing of time while the
\* dispatcher waits.
NextDeadline ==
    \/ \E engines \in {<<"bandcamp", "soundcloud">>, <<"soundcloud">>} :
          SearchCall(<<"a", "a">>, engines, 50)
    \/ WorkerStep
    \/ SearchWait
SpecDeadline == InitSearch /\ [][NextDeadline]_vars

\* The search service next to a cache that holds entries under the engines'
\* keys.
NextSearchCached ==
    \/ Tick
    \/ \E k \in Keys : Setex(k, MaxTTL, <<65>>)
    \/ \E engines \in {<<"bandcamp", "soundcloud">>, <<"soundcloud">>} :
          SearchCall(<<"a", "a">>, engines, 50)
    \/ WorkerStep
SpecSearchCached == InitSearch /\ [][NextSearchCached]_vars

\* The aggregation service on every answer of SearXNG.
InitAgg == clock = 0 /\ LimiterIdle /\ CacheOff /\ SearchIdle /\ AggInit /\ PlaylistIdle /\ NormIdle /\ AuxIdle
NextAgg == AggSearch \/ AggSearchFail
SpecAgg == InitAgg /\ [][NextAgg]_vars

\* Playlist requests served one at a time.
InitPlaylist == clock = 0 /\ LimiterIdle /\ CacheOff /\ SearchIdle /\ AggIdle /\ PlaylistInit /\ NormIdle /\ AuxIdle
NextPlaylist == PlaylistStep(1)
SpecPlaylist == InitPlaylist /\ [][NextPlaylist]_vars

\* Playlist requests served by concurrent sessions.
ConcurrentStep(s) ==
    \/ \E pl \in PlaylistIds : DbAddRead(s, pl, 1)
    \/ DbAddFinish(s)
    \/ \E pl \in PlaylistIds, pos \in {0, 1} : DbRemoveRead(s, pl, NoParam, pos)
    \/ DbRemoveFlush(s)
    \/ DbRemoveFinish(s)
    \/ \E pl \in PlaylistIds, answer \in AddAnswers : UAddSearch(s, pl, "query", answer)
    \/ UAddFinish(s)
    \/ \E pl \in PlaylistIds : UAddObject(s, pl)
NextPlaylistConc == \E s \in Sessions : ConcurrentStep(s)
SpecPlaylistConc == InitPlaylist /\ [][NextPlaylistConc]_vars

\* Playlists in memory: tracks are added, playlists are exported.
InitExport == clock = 0 /\ LimiterIdle /\ CacheOff /\ SearchIdle /\ AggIdle /\ PlaylistIdle /\ NormIdle /\ AuxIdle
NextExport ==
    \/ \E pl \in PlaylistIds, kind \in {"query", "url"}, answer \in AddAnswers :
          UAddSearch(1, pl, kind, answer)
    \/ UAddFinish(1)
    \/ \E pl \in PlaylistIds : UAddObject(1, pl)
    \/ \E pl \in PlaylistIds : ExportM3u(pl)
SpecExport == InitExport /\ [][NextExport]_vars

\* --- sanitation of a text field
InitSanitize ==
    /\ clock = 0 /\ LimiterIdle /\ CacheOff /\ SearchIdle /\ AggIdle /\ PlaylistIdle /\ AuxIdle
    /\ SanitizeInit
    /\ raw_result = RawBase /\ standardized = NotStandardized
    /\ restandardized = NotStandardized
NextSanitize == Sanitize
SpecSanitize == InitSanitize /\ [][NextSanitize]_vars

\* --- normalization of a raw result, twice
InitStandardize ==
    /\ clock = 0 /\ LimiterIdle /\ CacheOff /\ SearchIdle /\ AggIdle /\ PlaylistIdle /\ AuxIdle
    /\ text = <<>> /\ sanitized_text = NotSanitized
    /\ StandardizeInit
NextStandardize == Standardize \/ Restandardize
SpecStandardize == InitStandardize /\ [][NextStandardize]_vars

\* --- parsing of a duration string
InitDuration ==
    /\ clock = 0 /\ LimiterIdle /\ CacheOff /\ SearchIdle /\ AggIdle /\ PlaylistIdle /\ NormIdle
    /\ DurInit /\ AdapterIdle /\ ClassIdle /\ OwnerIdle /\ AclIdle /\ ProbeIdle /\ ValidIdle
NextDuration == ParseDurationCall
SpecDuration == InitDuration /\ [][NextDuration]_vars

\* --- an adapter and the response it receives
InitAdapter ==
    /\ clock = 0 /\ LimiterIdle /\ CacheOff /\ SearchIdle /\ AggIdle /\ PlaylistIdle /\ NormIdle
    /\ DurIdle /\ AdapterInit /\ ClassIdle /\ OwnerIdle /\ AclIdle /\ ProbeIdle /\ ValidIdle
NextAdapter == YoutubeHandle \/ DiscogsHandle
SpecAdapter == InitAdapter /\ [][NextAdapter]_vars

\* --- the pipeline of search() on a buffer
InitPipeline ==
    /\ clock = 0 /\ LimiterIdle /\ CacheOff /\ SearchIdle /\ AggIdle /\ PlaylistIdle /\ NormIdle
    /\ DurIdle /\ AdapterIdle /\ PipelineInit /\ OwnerIdle /\ AclIdle /\ ProbeIdle /\ ValidIdle
NextPipeline == PipelineCall
SpecPipeline == InitPipeline /\ [][NextPipeline]_vars

\* --- the classifier on one result
InitClassify ==
    /\ clock = 0 /\ LimiterIdle /\ CacheOff /\ SearchIdle /\ AggIdle /\ PlaylistIdle /\ NormIdle
    /\ DurIdle /\ AdapterIdle /\ ClassifyInit /\ OwnerIdle /\ AclIdle /\ ProbeIdle /\ ValidIdle
NextClassify == ClassifyCall
SpecClassify == InitClassify /\ [][NextClassify]_vars

\* --- the validation of one search input
InitValidate ==
    /\ clock = 0 /\ LimiterIdle /\ CacheOff /\ SearchIdle /\ AggIdle /\ PlaylistIdle /\ NormIdle
    /\ DurIdle /\ AdapterIdle /\ ClassIdle /\ OwnerIdle /\ AclIdle /\ ProbeIdle /\ ValidateInit
NextValidate == ValidateCall
SpecValidate == InitValidate /\ [][NextValidate]_vars

\* --- callers that acquire, and a client that asks what remains or resets;
\* the store may raise at the commands of get_remaining and of reset (at
\* those of acquire: SpecFault).
\* Caller 1 acquires on either identifier at any time, so it may be between
\* two commands of an acquire when the reset comes. Caller 2 makes the
\* acquire that follows the reset: it asks once, for the identifier that was
\* reset, at any moment after the reset returned.
AcquireAfterReset ==
    \/ /\ was_reset.n > 0 /\ result[2] = "none"
       /\ AcquireStart(2, was_reset.identifier)
    \/ AcquirePipe(2)
    \/ AcquireZadd(2)
    \/ AcquireExpire(2)
\* The seconds the clock runs over next to a reset.
MaxResetClock == 1
NextReset ==
    \/ clock < MaxResetClock /\ Tick
    \/ AcquireStep(1)
    \/ AcquireAfterReset
    \/ \E e \in Identifiers : Reset(e)
    \/ \E e \in Identifiers : ResetStoreError(e)
    \/ GetRemaining
\* The smallest and the largest limit and period are tried.
InitReset == InitLimiter /\ limit \in {1, MaxLimit} /\ period \in {1, MaxPeriod}
SpecReset == InitReset /\ [][NextReset]_vars

\* --- the cache and its purge
NextPurge ==
    \/ Tick
    \/ \E k \in Keys, t \in 1..MaxTTL : Setex(k, t, <<233, 65>>)
    \/ \E k \in Keys : Delete(k)
    \/ \E p \in Patterns : ClearPattern(p)
    \/ ClearPatternDelete
    \/ ClearPatternStoreError
SpecPurge == InitCache /\ [][NextPurge]_vars

\* --- users create universal playlists and list them
InitOwner ==
    /\ clock = 0 /\ LimiterIdle /\ CacheOff /\ SearchIdle /\ AggIdle /\ PlaylistIdle /\ NormIdle
    /\ AuxIdle
NextOwner ==
    \/ \E u \in Users, name \in PlaylistNames : CreatePlaylist(u, name)
    \/ \E u \in Users : ListPlaylists(u)
SpecOwner == InitOwner /\ [][NextOwner]_vars

\* --- users ask for the playlists of the database
InitAcl ==
    /\ clock = 0 /\ LimiterIdle /\ CacheOff /\ SearchIdle /\ AggIdle /\ PlaylistIdle /\ NormIdle
    /\ DurIdle /\ AdapterIdle /\ ClassIdle /\ OwnerIdle /\ AclInit /\ ProbeIdle /\ ValidIdle
AclStep(s) ==
    \/ \E u \in UserIds, data \in PostBodies : PlaylistsPost(s, u, data)
    \/ \E u \in UserIds, pl \in AskedPlaylists, method \in {"GET", "DELETE"} :
          PlaylistDetail(s, u, pl, method, NoBody)
    \/ \E u \in UserIds, pl \in AskedPlaylists, data \in PutBodies :
          PlaylistDetail(s, u, pl, "PUT", data)
    \/ PlaylistsPostToDict(s)
    \/ PlaylistDetailPut(s)
    \/ PlaylistDetailPutToDict(s)
    \/ PlaylistDetailDelete(s)
    \/ \E u \in UserIds, pl \in AskedPlaylists, method \in {"POST", "DELETE"},
          t \in Tracks \cup {NoParam} : PlaylistTracks(s, u, pl, method, t)
    \/ PlaylistTracksRead(s)
    \/ PlaylistTracksFlush(s)
    \/ PlaylistTracksFinish(s)
NextAcl == \E s \in Sessions : AclStep(s)
SpecAcl == InitAcl /\ [][NextAcl]_vars

\* ================================================================== claims
\* Grants of identifier e logged in the seconds lo..hi.
GrantsIn(e, lo, hi) == SumOver(grants[e], {t \in 0..MaxClock : lo <= t /\ t <= hi})

\* C1: one caller, healthy store: in every window of `period` seconds at most
\* `limit` calls were granted.
RateLimitIsolation ==
    \A e \in Identifiers : \A w \in 0..MaxClock :
        GrantsIn(e, w, w + period - 1) <= limit

\* C2: with concurrent callers, the grants in the window that ends at any
\* granted call never exceed limit.
AcquireAtomicBound ==
    \A e \in Identifiers : \A t \in 0..MaxClock :
        grants[e][t] > 0 => GrantsIn(e, t - period + 1, t) <= limit

\* C3: an acquire that met a store error (at the pipeline, at zadd or at
\* expire) returned True; it never ends in any other way.
FailOpen ==
    \A c \in Callers : (pc[c] = "idle" /\ errored[c]) => result[c] = "true"

\* An acquire failed at expire, after its zadd went through.
FailOpenWitness ==
    \E c \in Callers : pc[c] = "idle" /\ errored[c] /\ zset[ident[c]] # {}

CacheExpiry ==
    [][\A k \in Keys :
          (Get(k) /\ written[k].ok /\ clock >= written[k].exp)
              => getResult'.ret = Miss]_vars

\* A get ran on a key whose last write had expired.
CacheExpiryWitness ==
    /\ enabled
    /\ getResult.key \in Keys
    /\ getResult.late
    /\ getResult.ret = Miss

CountIn(x, sq) == Cardinality({j \in 1..Len(sq) : sq[j] = x})
Range(sq) == {sq[j] : j \in 1..Len(sq)}

\* What worker i's engine answered, tagged with the engine: the whole list
\* for a 200 answer, nothing for another status or an exception.
Contribution(i) ==
    IF wresult[i].answer.kind = "ok"
    THEN [j \in 1..Len(wresult[i].answer.results) |->
             TagResult(wresult[i].answer.results[j], search_engines[i])]
    ELSE <<>>

Failed(i) == wresult[i].answer.kind \in {"status", "raise"}

\* C7: a dispatched request ends in a successful response, whatever its
\* engines answered, and the buffer the response is built from holds exactly
\* the results of the engines that did not fail, each as often as answered.
PartialSuccess ==
    (phase = "done" /\ wstate # <<>>) =>
        /\ response.status = 200 /\ response.success
        /\ \A x \in Range(all_results) \cup UNION {Range(Contribution(i)) : i \in Workers} :
              CountIn(x, all_results)
                 = SumOver([i \in Workers |-> CountIn(x, Contribution(i))], Workers)
        /\ response.results = Take(Pipeline(all_results), sLimit)
        /\ response.total_results = Len(Pipeline(all_results))

\* Two engines were queried, one failed, the other's track is in the response.
PartialSuccessWitness ==
    /\ phase = "done" /\ Len(wstate) = 2
    /\ \E i \in Workers : Failed(i)
    /\ \E i \in Workers : wresult[i].answer.kind = "ok" /\ wresult[i].results # <<>>
    /\ response.success /\ response.total_results >= 1

\* C8: the dispatcher is never still waiting for workers once more than the
\* deadline has passed since it started.
DeadlineHonored == phase = "waiting" => waited <= timeout

\* The query passes input validation (no engine list given).
ValidQuery(q) == ValidateSearchInput(q, <<>>)

\* C9: a request whose query fails input validation is answered with an
\* error, starts no worker and reports no engine queried.
InvalidInputRejected ==
    (phase # "idle" /\ ~ValidQuery(sQuery)) =>
        /\ wstate = <<>>
        /\ phase = "done"
        /\ response.status = 400 /\ ~response.success
        /\ response.engines_queried = 0

\* C10: every HTTP request a worker sends for an engine follows a granted
\* rate-limiter acquire for that engine.
AcquireBeforeSend ==
    \A e \in ActiveNames :
        sent[e] <= IF e \in Identifiers THEN SumOver(grants[e], 0..MaxClock) ELSE 0
\* The cache key of an engine's worker for the query of the request.
CacheKey(e) ==
    IF e = "bandcamp" THEN "music:search:bandcamp:h" ELSE "music:search:soundcloud:h"

\* The cache holds an unexpired entry under key k.
CacheHolds(k) == enabled /\ cstore[FullKey(k)].present /\ clock < cstore[FullKey(k)].exp

\* C11: a worker whose engine has an unexpired cache entry sends no HTTP
\* request.
CacheHitShortCircuit ==
    [][\A i \in Workers :
          WorkerSend(i) => ~CacheHolds(CacheKey(search_engines[i]))]_vars

\* C12: a request with a query is dispatched to exactly the requested names
\* the registry knows, and it ends in a response, never in an error, also
\* when some or all of the requested names are unknown.
UnknownEnginesDropped ==
    (phase # "idle" /\ sQuery # <<>>) =>
        /\ search_engines = ResolveEngines(sEngines)
        /\ Len(wstate) = Len(search_engines)
        /\ phase = "done" => (response.status = 200 /\ response.success)

\* ---- aggregation
\* The results the aggregated search works on, and the unified id of one.
MusicResults == SearchSearxng(raw_results)
IdOf(r) == GenerateUnifiedId(SplitTitle(r.title).title, SplitTitle(r.title).artist)
IdsOf(results) == {IdOf(results[j]) : j \in 1..Len(results)}
PlatformKeys(track) == {track.platforms[j].platform : j \in 1..Len(track.platforms)}
Untruncated == Cardinality(IdsOf(MusicResults)) <= aggLimit

\* C16: each unified id of the search has one UnifiedTrack in the output,
\* and its platforms map has a key that is the engine name of every result
\* with that id.
UnifiedPerEngine ==
    aggPhase = "done" =>
        /\ \A i, j \in 1..Len(aggOut) : aggOut[i].unified_id = aggOut[j].unified_id => i = j
        /\ Untruncated => {aggOut[i].unified_id : i \in 1..Len(aggOut)} = IdsOf(MusicResults)
        /\ \A i \in 1..Len(aggOut) : \A j \in 1..Len(MusicResults) :
              IdOf(MusicResults[j]) = aggOut[i].unified_id
                  => MusicResults[j].engine \in PlatformKeys(aggOut[i])

\* The weight the scoring rule gives a platform.
Weight(p) ==
    CASE p = "youtube" -> 30 [] p = "spotify" -> 25 [] p = "soundcloud" -> 20
      [] p = "bandcamp" -> 15 [] p = "deezer" -> 10 [] p = "mixcloud" -> 10
      [] OTHER -> 5

\* C17: every returned track has popularity_score = min(100, sum of the
\* weights of its platforms + 10 * number of platforms), within 0..100.
ScoreAssignment ==
    aggPhase = "done" =>
        \A i \in 1..Len(aggOut) :
            LET keys == PlatformKeys(aggOut[i])
                total == SumOver([p \in keys |-> Weight(p)], keys) + 10 * Cardinality(keys)
            IN /\ aggOut[i].popularity_score = IF total > 100 THEN 100 ELSE total
               /\ aggOut[i].popularity_score \in 0..100

\* A track on youtube, spotify and soundcloud (75 + 30) was returned with
\* score 100.
ScoreWitness ==
    /\ aggPhase = "done"
    /\ \E i \in 1..Len(aggOut) :
          /\ PlatformKeys(aggOut[i]) = {"youtube", "spotify", "soundcloud"}
          /\ aggOut[i].popularity_score = 100

\* The place of the first result with the given unified id in the search.
FirstIndex(id) ==
    CHOOSE j \in 1..Len(MusicResults) :
        /\ IdOf(MusicResults[j]) = id
        /\ \A k \in 1..Len(MusicResults) : IdOf(MusicResults[k]) = id => j <= k

\* C18: the returned list is in descending order of popularity_score, and
\* tracks of equal score are in the order in which their first results
\* arrived.
FinalOrdering ==
    aggPhase = "done" =>
        \A i, j \in 1..Len(aggOut) :
            i < j =>
              /\ aggOut[i].popularity_score >= aggOut[j].popularity_score
              /\ aggOut[i].popularity_score = aggOut[j].popularity_score
                    => FirstIndex(aggOut[i].unified_id) < FirstIndex(aggOut[j].unified_id)

\* ---- playlists
\* The positions of the rows of a playlist are 0..n-1, each once.
Dense(rows) ==
    /\ UniquePositions(rows)
    /\ {r.position : r \in rows} = 0..(Cardinality(rows) - 1)

\* C13: with requests served one at a time, the rows of every playlist in
\* the database have the positions 0..n-1 without gap or duplicate, and a
\* playlist in memory holds its n added tracks at the places 1..n of its list.
PositionsDense ==
    \A pl \in PlaylistIds :
        /\ Dense(ptracks[pl])
        /\ DOMAIN playlists_storage[pl] = 1..uacked[pl]

\* A remove request on a playlist of two rows has flushed its DELETE and is
\* about to reorder and commit, and a playlist in memory got two tracks.
PositionsWitness ==
    /\ \E pl \in PlaylistIds : Cardinality(ptracks[pl]) = 2 /\ dbreq[1].playlist = pl
                                 /\ dbreq[1].pc = "remove"
    /\ \E pl \in PlaylistIds : Len(playlists_storage[pl]) = 2

\* The outcome of concurrent requests: the rows of every playlist keep the
\* positions 0..n-1, every row whose add was acknowledged and whose removal
\* was not is still there, and every playlist in memory holds exactly the
\* tracks of the adds acknowledged for it.
PlaylistSerializable ==
    /\ \A pl \in PlaylistIds :
          /\ Dense(ptracks[pl])
          /\ Len(playlists_storage[pl]) = uacked[pl]
    /\ \A id \in dbAdded \ dbRemoved : \E pl \in PlaylistIds : \E r \in ptracks[pl] : r.id = id

\* Session s is inside an update of playlist pl: between the read of the
\* rows its write depends on (the last position of an add, the row of a
\* remove) and its commit or rollback.
InUpdate(s, pl) ==
    /\ dbreq[s].pc \in {"add", "delete", "remove"}
    /\ dbreq[s].playlist = pl

\* The step of a session's request changes the rows and the list of no
\* playlist but the one the request is on.
OtherPlaylistsKept ==
    \A s \in Sessions : \A q \in PlaylistIds :
        (/\ dbreq'[s] # dbreq[s] \/ ureq'[s] # ureq[s]
         /\ q \notin {dbreq[s].playlist, dbreq'[s].playlist,
                      ureq[s].playlist, ureq'[s].playlist})
            => ptracks'[q] = ptracks[q] /\ playlists_storage'[q] = playlists_storage[q]

ExtinfAt(lines) == {i \in 1..Len(lines) : lines[i][1] = "#EXTINF:"}

\* C15: an export begins with #EXTM3U, has one #EXTINF line per track of the
\* playlist, and each is followed by a URL of that track's platforms.
M3uExport ==
    [][\A pl \in PlaylistIds :
          ExportM3u(pl) =>
            LET lines == m3u'.lines
                tracks == playlists_storage[pl]
            IN /\ lines[1] = <<"#EXTM3U">>
               /\ Cardinality(ExtinfAt(lines)) = Len(tracks)
               /\ \A i \in ExtinfAt(lines) :
                     LET k == Cardinality({j \in ExtinfAt(lines) : j <= i})
                     IN /\ i < Len(lines)
                        /\ k <= Len(tracks)
                        /\ \E a \in 1..Len(tracks[k].platforms) :
                               lines[i + 1] = <<tracks[k].platforms[a].url>>]_vars

\* ---- sanitation
\* Some dangerous pattern matches the text.
Dangerous(q) == \E i \in 1..Len(DANGEROUS_PATTERNS) : Matches(DANGEROUS_PATTERNS[i], q)

\* C19: the text _sanitize_text returns contains no match of a dangerous
\* pattern (script element, javascript:, on*= handler, data:text/html).
SanitizerSafety == sanitized_text # NotSanitized => ~Dangerous(sanitized_text)

\* ---- normalization
\* C20: standardizing a standardized result gives it back, field for field.
StandardizeIdempotent ==
    restandardized # NotStandardized =>
        /\ DOMAIN restandardized = DOMAIN standardized
        /\ \A k \in DOMAIN standardized : restandardized[k] = standardized[k]

\* C27: the artists list of a standardized result starts with its primary
\* artist, whatever the raw artist string is.
ArtistsStartWithArtist ==
    (standardized # NotStandardized /\ "artist" \in DOMAIN raw_result) =>
        /\ standardized.artists # <<>>
        /\ standardized.artists[1] = standardized.artist

\* ---- durations
\* The milliseconds a duration string stands for: place values, and a bare
\* integer is seconds below 1000 and milliseconds from 1000 on.
ExpectedMs(d) ==
    IF d.form = "int" THEN (IF d.s < 1000 THEN d.s * 1000 ELSE d.s)
    ELSE (d.h * 3600 + d.m * 60 + d.s) * 1000

\* C21: parse_duration returns the milliseconds the duration string stands
\* for, in each accepted form (h:mm:ss, m:ss, ISO 8601, "3m 45s", integer).
DurationParsing == duration_ms # NotParsed => duration_ms = ExpectedMs(duration_str)

\* ---- adapters
\* C22: on HTTP 429 an adapter raises an error that carries the status or the
\* Retry-After delay, and on any other non-2xx status it returns an empty
\* list without raising.
AdapterStatusHandling ==
    outcome # NoOutcome =>
        /\ api_response.status = 429 =>
              /\ outcome.kind = "raise"
              /\ outcome.status_code = 429 \/ outcome.retry_after # 0
        /\ (api_response.status # 429 /\ api_response.status \notin 200..299) =>
              outcome = Return(0)

\* ---- pipeline
\* C23: the radio result is dropped, the result titled "Daft Punk - Around the
\* World" with a duration of 428 s survives as a music track, and every
\* survivor has an allowed content type.
ClassifierDrop ==
    classification # NotClassified =>
        /\ \A i \in 1..Len(classification) :
              /\ classification[i].title # RadioResult.title
              /\ classification[i].content_type \in AllowedTypes
        /\ \A i \in 1..Len(cresult) :
              (cresult[i].title = TrackResult.title /\ cresult[i].duration = 428) =>
                  \E j \in 1..Len(classification) :
                      /\ classification[j].title = TrackResult.title
                      /\ classification[j].content_type = "music_track"

\* ---- classifier
\* The result has no engine override.
NoOverride(r) == r.engine \notin {"radio browser", "genius", "genius lyrics"}

\* C26: without an engine override, classify answers radio station exactly
\* when the radio score is at least 0.7, else podcast on a podcast pattern,
\* else music track exactly when the music score is at least 0.5; and it
\* answers the same type and confidence each time.
ClassifierThresholds ==
    \A i \in 1..Len(classification) :
        /\ classification[i] = classification[1]
        /\ NoOverride(cresult) =>
              LET type == classification[i][1]
                  radio == RadioScore(cresult) >= 7
                  podcast == ~radio /\ IsPodcast(cresult.title, cresult.content)
              IN /\ type = "radio_station" <=> radio
                 /\ podcast => type = "podcast"
                 /\ type = "music_track" <=> (~radio /\ ~podcast /\ MusicScore(cresult) >= 5)

\* ---- validation
\* C28: for a valid query, validate_search_input accepts the engines exactly
\* when every one of them is a key of ACTIVE_ENGINES.
ValidationAgreesWithRegistry ==
    (is_valid # NotValidated /\ ValidQuery(vinput.query)) =>
        (is_valid[1] <=> \A i \in 1..Len(vinput.engines) : vinput.engines[i] \in ActiveNames)

\* ---- limiter, other operations
\* The windows of the identifiers other than e are left as they are.
OthersKept(e) ==
    \A f \in Identifiers \ {e} : zset'[f] = zset[f] /\ expireAt'[f] = expireAt[f]

Purged(k, p) == cstore[FullKey(k)].present /\ GlobMatch(p, KeySegments(k))

\* clear_pattern(p) returns in this step.
ClearReturns(p) ==
    /\ cleared' # cleared
    /\ cleared'.at = "returned"
    /\ cleared'.pattern = p

\* delete(k) touches k only.
DeleteTouchesOne ==
    \A k \in Keys : Delete(k) =>
        /\ GetReturn(cstore', k) = Miss
        /\ \A j \in Keys \ {k} : cstore'[FullKey(j)] = cstore[FullKey(j)]

ListsOwnPlaylists ==
    [][\A u \in Users : ListPlaylists(u) =>
          {p.id : p \in listing'.playlists} =
              {id \in DOMAIN creators : creators[id] = u}]_vars

\* ---- playlists, access
\* Session s acts in this step; the request it acts on and the status it
\* answers (0: none yet).
Acts(s) == aclreq'[s] # aclreq[s] \/ (aclresp' # aclresp /\ aclresp'.session = s)
TakesUp(s) == Acts(s) /\ aclresp'.n # aclresp.n
ActsOn(s) == IF aclreq'[s].at # "idle" THEN aclreq'[s] ELSE aclresp'.request
Status(s) == IF aclreq'[s].at # "idle" THEN 0 ELSE aclresp'.status

\* C30: a user who does not own the playlist is answered 403 to every PUT
\* and DELETE of it, is answered a GET with 200 only when it is public, gets
\* past 403 on its tracks only when it is collaborative; the row of a
\* playlist changes only in a step of a request of its owner, or of a
\* request on the tracks of a playlist loaded as collaborative; and a step
\* that answers a request with an error leaves every playlist and its tracks
\* as they were (a request turned down with 400, 403 or 404 has no step
\* before that one that writes; the owner's PUT or POST answered 500 at
\* to_dict has committed its write in the step before).
PlaylistAccessControl ==
    [][\A s \in Sessions : Acts(s) =>
          LET r == ActsOn(s)
              p == playlists[r.playlist]
              stranger == p.exists /\ p.owner_id # r.user
          IN /\ Status(s) \notin {0, 200, 201} => playlists' = playlists
             /\ r.route = "playlists" =>
                   \A pl \in AskedPlaylists :
                       playlists'[pl] # playlists[pl] =>
                           ~playlists[pl].exists /\ playlists'[pl].owner_id = r.user
             /\ r.route # "playlists" =>
                   /\ \A pl \in AskedPlaylists \ {r.playlist} : playlists'[pl] = playlists[pl]
                   /\ (TakesUp(s) /\ stranger /\ r.route = "detail"
                          /\ r.method \in {"PUT", "DELETE"}) => Status(s) = 403
                   /\ (TakesUp(s) /\ stranger /\ r.route = "detail" /\ r.method = "GET"
                          /\ Status(s) = 200) => p.is_public
                   /\ (TakesUp(s) /\ stranger /\ r.route = "tracks" /\ Status(s) # 403)
                          => p.is_collaborative
                   /\ (p.exists /\ playlists'[r.playlist] # p) =>
                          \/ p.owner_id = r.user
                          \/ r.route = "tracks" /\ r.row.is_collaborative]_vars

\* A user who does not own a public playlist asked to delete it, was answered
\* 403 and the playlist is there, under the name its owner's PUT gave it.
AccessWitness ==
    LET r == aclresp.request
    IN /\ aclresp.n > 0 /\ r.at = "idle" /\ aclresp.status = 403
       /\ r.route = "detail" /\ r.method = "DELETE"
       /\ r.row.is_public /\ r.row.owner_id # r.user
       /\ playlists[r.playlist].exists
       /\ playlists[r.playlist].name = "renamed"
====
